---- MODULE Spec2Model ----
(***************************************************************************)
(* The crawl of SQLAlchemySource (sql_common.py) and of PrestoOnHiveSource *)
(* (presto_on_hive.py): the walk database -> schema -> table/view, the     *)
(* report it accumulates, the stream of work units it yields, and the      *)
(* stale-entity pass that get_workunits wraps around the stream.           *)
(***************************************************************************)
EXTENDS Integers, Sequences, FiniteSets, TLC

\* ------------------------------------------------------------------ bounds
\* longest list of names one get_table_names / get_view_names call returns
MaxNames == 2
\* number of introspection calls of one catalog that raise
MaxFaults == 1
\* number of allow rules, and of deny rules, of one pattern
MaxRules == 2

\* ------------------------------------------------------------- the catalog
\* What the inspector of the crawled database answers. The schema list and
\* the second schema are fixed; the lists of the first schema are inputs.
DbName == "db"
SchemaNames == <<"s1", "s2">>
TableNameSet == {"t1", "t2"}
ViewNameSet == {"v1", "v2"}

SeqsUpTo(S, n) == UNION {[1..k -> S] : k \in 0..n}

\* the introspection calls that may raise, <<call, target>>
FaultPoints ==
    { <<"connect", DbName>>, <<"schemas", DbName>>,
      <<"tables", "s1">>, <<"views", "s1">>,
      <<"columns", "s1.t1">>, <<"pk", "s1.t1">>, <<"columns", "s1.v1">> }
FaultSets == {F \in SUBSET FaultPoints : Cardinality(F) <= MaxFaults}

\* configurations of the source (SQLAlchemyConfig): the flags and patterns
\* the walk reads. A pattern is given by the set of names it rejects.
DefaultConfig ==
    [include_tables |-> TRUE, include_views |-> TRUE, profiling |-> FALSE,
     schema_deny |-> {}, table_deny |-> {}, view_deny |-> {},
     profile_deny |-> {}, report_dropped_profiles |-> FALSE,
     profile_if_updated_since_days |-> "None",
     profile_table_size_limit |-> "None",
     profile_table_row_limit |-> "None",
     include_table_location_lineage |-> TRUE]
Configs ==
    { DefaultConfig,
      [DefaultConfig EXCEPT !.profiling = TRUE],
      [DefaultConfig EXCEPT !.table_deny = {"s1.t2"}, !.view_deny = {"s1.v2"}],
      [DefaultConfig EXCEPT !.schema_deny = {"s1"}] }

\* identifiers a previous run may have left in the checkpoint
OldCheckpoints == { {}, {"dataset:s1.t1", "dataset:s1.old"} }

VARIABLES
    cfg,            \* self.config
    tableNames,     \* schema -> what inspector.get_table_names(schema) returns
    viewNames,      \* schema -> what inspector.get_view_names(schema) returns
    faults,         \* the introspection calls that raise
    exc,            \* the exception class those calls raise
    hcfg,           \* the source class and, for Presto on Hive, its config
    schemaNames,    \* what inspector.get_schema_names() returns
    metastore,      \* the Hive metastore the Presto-on-Hive queries read
    checkpoint,     \* the persisted CheckpointState of the job
    checkpoint0,    \* the checkpoint as it was when the run started
    run,            \* "first" or "second" run of the job
    changed,        \* the catalog changed since the previous run
    prevStream,     \* the stream of the previous run
    pc,             \* position of the generator get_workunits
    conn,           \* the connection of get_inspectors is open
    schemaQ,        \* schema names get_allowed_schemas has yet to visit
    schema,         \* the schema being walked
    queue,          \* names loop_tables / loop_views has yet to visit
    tables_seen,    \* loop_tables' local set
    stream,         \* the work units yielded so far, in order
    seen,           \* identifiers the stale-entity handler recorded this run
    report,         \* self.report (SQLSourceReport)
    profile_requests,
    candidate_queries,  \* the schemas generate_profile_candidates was called for
    _alchemy_client,    \* the SQLAlchemyClient of PrestoOnHiveSource and its connection
    last_call,      \* the last call of a pure function, with its result
    _field_type_mapping,         \* the module's dict, in insertion order
    _known_unknown_field_types   \* the module's set

vars == <<cfg, tableNames, viewNames, faults, exc, hcfg, schemaNames, metastore,
          checkpoint, checkpoint0, run, changed, prevStream, pc, conn, schemaQ, schema,
          queue, tables_seen, stream, seen, report, profile_requests, candidate_queries,
          _alchemy_client, last_call,
          _field_type_mapping, _known_unknown_field_types>>

typeVars == <<_field_type_mapping, _known_unknown_field_types>>
catalogVars == <<cfg, tableNames, viewNames, faults, exc, hcfg, schemaNames,
                 metastore, last_call, typeVars>>
walkVars == <<checkpoint, checkpoint0, run, changed, prevStream, pc, conn, schemaQ,
              schema, queue, tables_seen, stream, seen, report, profile_requests, candidate_queries, _alchemy_client>>
runsVars == <<run, changed, prevStream, checkpoint0>>

\* ------------------------------------------------------------ inspector
Raises(call, target) == <<call, target>> \in faults

\* the exception classes the handlers of the code tell apart; "Exception"
\* stands for any class none of them names (another database error)
ExcKinds == {"NotImplementedError", "KeyError", "ProgrammingError", "Exception"}

\* the call raises and the except clauses around it, which name the classes
\* in handled, do not catch it
Propagates(call, target, handled) == Raises(call, target) /\ exc \notin handled

\* PrestoOnHiveConfig.get_sql_alchemy_url: the database of the url
get_sql_alchemy_url ==
    IF hcfg.metastore_db_name # "" THEN hcfg.metastore_db_name ELSE hcfg.database

\* SQLAlchemyClient(config), which the constructor of PrestoOnHiveSource
\* makes: it connects at once; the base class has no such client
SQLAlchemyClient ==
    IF hcfg.source = "presto_on_hive"
    THEN [connection |-> "open", database |-> get_sql_alchemy_url]
    ELSE [connection |-> "none", database |-> ""]

\* get_db_name: the database of the engine's url, or for Presto on Hive the
\* configured database, else the database of the metastore connection
get_db_name ==
    IF hcfg.source = "presto_on_hive"
    THEN IF hcfg.database # "" THEN hcfg.database ELSE hcfg.metastore_db_name
    ELSE DbName

\* inspector.get_columns: the column descriptors of a table or view
ColumnsOf(dataset_name) ==
    IF dataset_name \in {"s1.t1", "s2.t1"}
    THEN << [name |-> "id", type |-> "INTEGER"],
            [name |-> "name", type |-> "VARCHAR"] >>
    ELSE IF dataset_name = "s1.t2"
    THEN << [name |-> "id", type |-> "INTEGER"],
            [name |-> "shape", type |-> "GEOMETRY"],
            [name |-> "area", type |-> "GEOMETRY"],
            [name |-> "span", type |-> "INTERVAL"] >>
    ELSE IF dataset_name \in {"s1.t0", "s1.v0"}
    THEN << >>
    ELSE IF dataset_name = "s1.td"
    THEN << [name |-> "id", type |-> "INTEGER"],
            [name |-> "id", type |-> "VARCHAR"] >>
    ELSE << [name |-> "id", type |-> "INTEGER"] >>

\* inspector.get_pk_constraint(...)["constrained_columns"]
PrimaryKeyOf(dataset_name) ==
    IF dataset_name \in {"s1.t1", "s2.t1"} THEN {"id"} ELSE {}

\* inspector.get_view_definition
\* inspector.get_view_definition: a str, a TextClause, or None
ViewDefinitionOf(dataset_name) ==
    IF dataset_name = "s1.v2" THEN [class |-> "None", text |-> ""]
    ELSE IF dataset_name = "s1.v0"
    THEN [class |-> "TextClause", text |-> "SELECT 1"]
    ELSE [class |-> "str", text |-> "SELECT * FROM foo"]

\* the conversion with None going through str() as well
view_definition_str_only(view_definition) ==
    IF view_definition.class = "None" THEN "None" ELSE view_definition.text

\* _process_view's conversion of what get_view_definition returned: None
\* becomes the empty text, anything else goes through str()
view_definition_text(view_definition) ==
    IF view_definition.class = "None" THEN "" ELSE view_definition.text

\* ------------------------------------------------------------ work units
\* One yielded work unit: its kind, the urn it is about, the container it
\* refers to (if any), and for a dataset its subtype, fields and view text.
WU(kind, urn, ref, etype, fields, text) ==
    [kind |-> kind, urn |-> urn, ref |-> ref, etype |-> etype,
     fields |-> fields, text |-> text]

NoRef == "-"

\* the work unit of a ViewPropertiesClass aspect
ViewPropertiesWU(urn, viewLogic) ==
    WU("view_properties", urn, NoRef, "view", <<>>, viewLogic)
        @@ [materialized |-> FALSE, viewLanguage |-> "SQL"]

\* get_identifier and normalise_dataset_name of the base class
get_identifier(sch, entity) == sch \o "." \o entity

\* make_dataset_urn_with_platform_instance, as called by _process_table
DatasetUrn(dataset_name) == "dataset:" \o dataset_name
\* gen_database_key / gen_schema_key, as called by gen_schema_containers
DatabaseKey(database) == "container:" \o database
SchemaKey(database, sch) == "container:" \o database \o "." \o sch

\* gen_database_containers: the container of the database
gen_database_container(database) ==
    << WU("database_container", DatabaseKey(database), NoRef, "", <<>>, "") >>

\* gen_schema_containers of the base class: the container of one schema,
\* with the database container as its parent
gen_schema_containers(sch, database) ==
    << WU("schema_container", SchemaKey(database, sch), DatabaseKey(database),
          "", <<>>, "") >>

\* add_table_to_schema_container: the record that puts a dataset in a schema
add_table_to_schema_container(dataset_urn, db_name, sch) ==
    WU("container_membership", dataset_urn, SchemaKey(db_name, sch), "", <<>>, "")

EmptyReport ==
    [tables_scanned |-> 0, views_scanned |-> 0, entities_profiled |-> 0,
     filtered |-> <<>>, warnings |-> <<>>, failures |-> {}]

MISSING_COLUMN_INFO == "missing column information"

\* ------------------------------------------------------------ type mapping
\* isinstance(column_type, sql_type): the classes a native type derives from
TypeClasses(column_type) ==
    CASE column_type = "INTEGER" -> {"INTEGER", "Integer"}
      [] column_type = "VARCHAR" -> {"VARCHAR", "String"}
      [] column_type = "FLOAT" -> {"FLOAT", "Float", "Numeric"}
      [] column_type = "INTERVAL" -> {"INTERVAL", "Interval"}
      [] column_type = "ENUM" -> {"ENUM", "Enum", "String"}
      [] column_type = "CLOB" -> {"CLOB", "Text", "String"}
      [] column_type = "MYTEXT" -> {"MYTEXT", "String"}
      [] OTHER -> {column_type}

\* _field_type_mapping as the module defines it, in insertion order
FieldTypeMapping ==
    << <<"Integer", "Number">>, <<"Numeric", "Number">>,
       <<"Boolean", "Boolean">>, <<"Enum", "Enum">>, <<"String", "String">>,
       <<"Date", "Date">>, <<"NullType", "Null">> >>
\* _known_unknown_field_types as the module defines it
KnownUnknownFieldTypes == {"Interval", "CLOB"}

FirstMatch(mapping, column_type) ==
    LET hits == {i \in 1..Len(mapping) :
                    mapping[i][1] \in TypeClasses(column_type)}
    IN  IF hits = {} THEN 0
        ELSE CHOOSE i \in hits : \A j \in hits : i <= j

\* get_column_type with the warning reported for the known unknown types too
MapTypeWarnsAlways(mapping, unknown, column_type) ==
    LET i == FirstMatch(mapping, column_type)
    IN  IF i # 0 THEN [type |-> mapping[i][2], warn |-> FALSE]
        ELSE [type |-> "Null", warn |-> TRUE]

\* the body of get_column_type, over the two tables it reads: the category
\* and whether a warning is reported
MapType(mapping, unknown, column_type) ==
    LET i == FirstMatch(mapping, column_type)
    IN  IF i # 0 THEN [type |-> mapping[i][2], warn |-> FALSE]
        ELSE IF TypeClasses(column_type) \cap unknown # {}
             THEN [type |-> "Null", warn |-> FALSE]
             ELSE [type |-> "Null", warn |-> TRUE]

get_column_type(column_type) ==
    MapType(_field_type_mapping, _known_unknown_field_types, column_type)

\* a primary-key constraint as get_pk_constraint returns it, or None
NoPk == [present |-> FALSE, cols |-> {}]
Pk(cols) == [present |-> TRUE, cols |-> cols]

\* get_schema_fields_for_column marking every column of a table that has a
\* primary key
get_schema_fields_for_column_all_keys(column, pk_constraints) ==
    [path |-> column.name,
     type |-> get_column_type(column.type).type,
     isPartOfKey |-> pk_constraints.present]

get_schema_fields_for_column(column, pk_constraints) ==
    [path |-> column.name,
     type |-> get_column_type(column.type).type,
     isPartOfKey |-> pk_constraints.present /\ column.name \in pk_constraints.cols]

get_schema_fields(columns, pk_constraints) ==
    [i \in 1..Len(columns) |->
        get_schema_fields_for_column(columns[i], pk_constraints)]

\* the warnings get_column_type reports while the fields are built, one for
\* each column whose type it cannot map
RECURSIVE TypeWarnings(_, _)
TypeWarnings(dataset_name, columns) ==
    IF columns = <<>> THEN <<>>
    ELSE (IF get_column_type(Head(columns).type).warn
          THEN << <<dataset_name, "unable to map type " \o Head(columns).type>> >>
          ELSE <<>>)
         \o TypeWarnings(dataset_name, Tail(columns))

\* ------------------------------------------------------------ entities
\* _get_columns with the handler's warning and the reset of the list left out
_get_columns_unguarded(dataset_name) ==
    [columns |-> ColumnsOf(dataset_name), warn |-> <<>>]

\* _get_columns: an exception of get_columns is swallowed into a warning
_get_columns(dataset_name) ==
    IF Raises("columns", dataset_name)
    THEN [columns |-> <<>>,
          warn |-> << <<dataset_name, "unable to get column information">> >>]
    ELSE [columns |-> ColumnsOf(dataset_name),
          warn |-> IF Len(ColumnsOf(dataset_name)) = 0
                   THEN << <<MISSING_COLUMN_INFO, dataset_name>> >> ELSE <<>>]

\* the result of processing one entity: the work units it yielded before it
\* returned or raised, the warnings it reported, and whether it raised
Outcome(emit, warn, raised) == [emit |-> emit, warn |-> warn, raised |-> raised]

\* the schema name in double quotes, as the retry of get_table_properties
\* passes it
Quote(sch) == "\"" \o sch \o "\""

\* inspector.get_table_comment(table, schema)["text"]
TableComment(schema_arg, table) == "comment of " \o schema_arg \o "." \o table

\* description None
NoDescription == ""

\* get_table_properties with no retry: only NotImplementedError is caught
get_table_properties_no_retry(dataset_name, sch, table) ==
    IF ~Raises("comment", dataset_name)
    THEN [raised |-> FALSE, description |-> TableComment(sch, table)]
    ELSE IF exc = "NotImplementedError"
    THEN [raised |-> FALSE, description |-> NoDescription]
    ELSE [raised |-> TRUE, description |-> NoDescription]

\* get_table_properties: a NotImplementedError of get_table_comment gives no
\* description; after a ProgrammingError the call is made once more with the
\* schema name quoted, outside any handler; any other exception leaves the
\* method
get_table_properties(dataset_name, sch, table) ==
    IF ~Raises("comment", dataset_name)
    THEN [raised |-> FALSE, description |-> TableComment(sch, table)]
    ELSE IF exc = "NotImplementedError"
    THEN [raised |-> FALSE, description |-> NoDescription]
    ELSE IF exc = "ProgrammingError" /\ ~Raises("comment_quoted", dataset_name)
    THEN [raised |-> FALSE, description |-> TableComment(Quote(sch), table)]
    ELSE [raised |-> TRUE, description |-> NoDescription]

\* inspector.get_foreign_keys: the records of the table; "" stands for a
\* referred_schema that is None or absent. The second record of s1.t2 has
\* no referred_table.
ForeignKeysOf(dataset_name) ==
    IF dataset_name = "s1.t1"
    THEN << [name |-> "fk_a", referred_schema |-> "s2", referred_table |-> "t1",
             constrained_columns |-> <<"id">>, referred_columns |-> <<"id">>],
            [name |-> "fk_b", referred_schema |-> "", referred_table |-> "t2",
             constrained_columns |-> <<"name">>, referred_columns |-> <<"id">>] >>
    ELSE IF dataset_name = "s1.t2"
    THEN << [name |-> "fk_c", referred_schema |-> "s2", referred_table |-> "t1",
             constrained_columns |-> <<"id">>, referred_columns |-> <<"id">>],
            [name |-> "fk_d", referred_schema |-> "",
             constrained_columns |-> <<"id">>, referred_columns |-> <<"id">>] >>
    ELSE << >>

\* the keys get_foreign_key_metadata reads with fk_dict[...]
ForeignKeyKeys == {"referred_table", "constrained_columns", "referred_columns", "name"}

SchemaFieldUrn(dataset_urn, f) == "schemaField:(" \o dataset_urn \o "," \o f \o ")"

\* get_foreign_key_metadata with the referred schema taken as the record
\* gives it
get_foreign_key_metadata_as_given(dataset_urn, sch, fk_dict) ==
    LET foreign_dataset ==
            DatasetUrn(fk_dict.referred_schema \o "." \o fk_dict.referred_table)
    IN  [name |-> fk_dict.name,
         foreignFields |-> [i \in DOMAIN fk_dict.referred_columns |->
                              SchemaFieldUrn(foreign_dataset, fk_dict.referred_columns[i])],
         sourceFields |-> [i \in DOMAIN fk_dict.constrained_columns |->
                              SchemaFieldUrn(dataset_urn, fk_dict.constrained_columns[i])],
         foreignDataset |-> foreign_dataset]

\* get_foreign_key_metadata: a record without referred_schema refers to the
\* schema of the table
get_foreign_key_metadata(dataset_urn, sch, fk_dict) ==
    LET referred_schema ==
            IF fk_dict.referred_schema = "" THEN sch ELSE fk_dict.referred_schema
        foreign_dataset ==
            DatasetUrn(get_identifier(referred_schema, fk_dict.referred_table))
    IN  [name |-> fk_dict.name,
         foreignFields |-> [i \in DOMAIN fk_dict.referred_columns |->
                              SchemaFieldUrn(foreign_dataset, fk_dict.referred_columns[i])],
         sourceFields |-> [i \in DOMAIN fk_dict.constrained_columns |->
                              SchemaFieldUrn(dataset_urn, fk_dict.constrained_columns[i])],
         foreignDataset |-> foreign_dataset]

\* _get_foreign_keys raises: only KeyError is caught
_get_foreign_keys_raises(dataset_name) ==
    Propagates("fks", dataset_name, {"KeyError"})

\* _get_foreign_keys: one constraint per record; a KeyError, of
\* get_foreign_keys or of a record that lacks a key, leaves the list empty
_get_foreign_keys(dataset_urn, sch, dataset_name) ==
    LET recs == ForeignKeysOf(dataset_name) IN
    IF \/ Raises("fks", dataset_name)
       \/ \E i \in DOMAIN recs : ~(ForeignKeyKeys \subseteq DOMAIN recs[i])
    THEN << >>
    ELSE [i \in DOMAIN recs |-> get_foreign_key_metadata(dataset_urn, sch, recs[i])]

\* the work unit of a DatasetSnapshot built by _process_table or
\* _process_view: with the description of its DatasetProperties and the
\* foreignKeys of its SchemaMetadata
DatasetSnapshotWU(urn, etype, fields, text, description, foreignKeys) ==
    WU("dataset", urn, NoRef, etype, fields, text)
        @@ [description |-> description, foreignKeys |-> foreignKeys]

\* _process_table's upstreamLineage record, which it yields once
\* get_table_properties has returned a location, before it reads the
\* constraints
lineage_wu(urn) ==
    IF cfg.include_table_location_lineage /\ hcfg.location # ""
    THEN << WU("lineage", urn, NoRef, "table", <<>>, hcfg.location) >>
    ELSE <<>>

\* _process_table: get_pk_constraint is called outside any handler
_process_table(dataset_name, sch, table) ==
    LET got == _get_columns(dataset_name)
        urn == DatasetUrn(dataset_name)
        props == get_table_properties(dataset_name, sch, table)
    IN  IF props.raised
        THEN Outcome(<<>>, got.warn, TRUE)
        ELSE IF \/ Propagates("pk", dataset_name, {})
                \/ _get_foreign_keys_raises(dataset_name)
        THEN Outcome(lineage_wu(urn), got.warn, TRUE)
        ELSE LET pk == Pk(PrimaryKeyOf(dataset_name))
                 fields == get_schema_fields(got.columns, pk)
             IN  Outcome(
                    lineage_wu(urn) \o
                    << add_table_to_schema_container(urn, get_db_name, sch),
                       DatasetSnapshotWU(urn, "table", fields, "", props.description,
                            _get_foreign_keys(urn, sch, dataset_name)),
                       WU("subtypes", urn, NoRef, "table", <<>>, "") >>,
                    got.warn \o TypeWarnings(dataset_name, got.columns),
                    FALSE)

\* _process_view: a KeyError of get_columns leaves the view without schema
\* metadata, a NotImplementedError of get_view_definition without text; any
\* other exception leaves _process_view
_process_view(dataset_name, sch, view) ==
    LET urn == DatasetUrn(dataset_name)
        no_schema == Raises("columns", dataset_name)
        columns == IF no_schema THEN <<>> ELSE ColumnsOf(dataset_name)
        warn == IF no_schema
                THEN << <<dataset_name, "unable to get schema for this view">> >>
                ELSE TypeWarnings(dataset_name, columns)
        fields == get_schema_fields(columns, NoPk)
        text == IF Raises("viewdef", dataset_name)
                THEN "" ELSE view_definition_text(ViewDefinitionOf(dataset_name))
        props == get_table_properties(dataset_name, sch, view)
    IN  IF Propagates("columns", dataset_name, {"KeyError"})
        THEN Outcome(<<>>, <<>>, TRUE)
        ELSE IF \/ props.raised
                \/ Propagates("viewdef", dataset_name, {"NotImplementedError"})
        THEN Outcome(<<>>, warn, TRUE)
        ELSE Outcome(
                << add_table_to_schema_container(urn, get_db_name, sch),
                   DatasetSnapshotWU(urn, "view", fields, text, props.description,
                                     << >>),
                   WU("subtypes", urn, NoRef, "view", <<>>, ""),
                   ViewPropertiesWU(urn, text) >>,
                warn,
                FALSE)

\* ------------------------------------------------------------ stale entities
\* The stale-entity handler that get_workunits wraps around the stream.
EntityKinds == {"database_container", "schema_container", "dataset"}

\* the handler records the identifier of every entity that passes by
add_entity_to_state(state, wus) ==
    state \cup {wus[i].urn : i \in {j \in 1..Len(wus) : wus[j].kind \in EntityKinds}}

\* StaleEntityRemover.diff
stale_removals(currentSeenSet, previousCheckpoint) ==
    previousCheckpoint \ currentSeenSet

RECURSIVE SetToSeq(_)
SetToSeq(S) ==
    IF S = {} THEN <<>>
    ELSE LET x == CHOOSE y \in S : TRUE IN <<x>> \o SetToSeq(S \ {x})

RemovalUnits(urns) ==
    LET q == SetToSeq(urns) IN
    [i \in 1..Len(q) |-> WU("removal", q[i], NoRef, "", <<>>, "")]

\* ------------------------------------------------------------ the walk
Yield(wus) ==
    /\ stream' = stream \o wus
    /\ seen' = add_entity_to_state(seen, wus)

\* a rejected name recorded among the failures
report_dropped_as_failure(r, ent_name) ==
    [r EXCEPT !.failures = @ \cup {<<ent_name, "dropped">>}]

report_dropped(r, ent_name) == [r EXCEPT !.filtered = Append(@, ent_name)]
report_warning(r, ws) == [r EXCEPT !.warnings = @ \o ws]
report_failure(r, key, reason) == [r EXCEPT !.failures = @ \cup {<<key, reason>>}]
report_entity_scanned(r, ent_type) ==
    IF ent_type = "table" THEN [r EXCEPT !.tables_scanned = @ + 1]
    ELSE [r EXCEPT !.views_scanned = @ + 1]

\* A rule of an AllowDenyPattern is given by the set of names its regex
\* matches.
Matches(rule, name) == name \in rule

\* allowed with the allow rules consulted before the deny rules
AllowDenyPattern_allow_first(pattern, name) ==
    IF \E a \in pattern.allow : Matches(a, name) THEN TRUE
    ELSE IF \E d \in pattern.deny : Matches(d, name) THEN FALSE
    ELSE pattern.allow = {}

\* AllowDenyPattern.allowed: deny rules first, then an empty allow list
\* admits everything, else some allow rule has to match
AllowDenyPattern_allowed(pattern, name) ==
    IF \E d \in pattern.deny : Matches(d, name) THEN FALSE
    ELSE IF pattern.allow = {} THEN TRUE
    ELSE \E a \in pattern.allow : Matches(a, name)

\* AllowDenyPattern.allowed, for a pattern with no allow rule, given by the
\* names its deny rules reject
allowed(deny, name) ==
    AllowDenyPattern_allowed([allow |-> {}, deny |-> {deny}], name)

\* where the walk goes once loop_tables / loop_views of a schema are over
AfterTables == "Views"
\* the profile requests of a schema built whatever the profiling flag says
AfterViewsAlwaysProfile == "Profile"

AfterViews == IF cfg.profiling THEN "Profile" ELSE "Schemas"

\* get_inspectors: create_engine(url) and engine.connect()
get_inspectors ==
    /\ pc = "Idle"
    /\ IF Raises("connect", DbName)
       THEN pc' = "Failed" /\ conn' = FALSE
       ELSE pc' = "Connected" /\ conn' = TRUE
    /\ UNCHANGED <<catalogVars, runsVars, checkpoint, schemaQ, schema, queue,
                   tables_seen, stream, seen, report, profile_requests, candidate_queries, _alchemy_client>>

\* get_workunits_internal: get_db_name, gen_database_containers
gen_database_containers ==
    /\ pc = "Connected"
    /\ Yield(gen_database_container(get_db_name))
    /\ pc' = "ListSchemas"
    /\ UNCHANGED <<catalogVars, runsVars, checkpoint, conn, schemaQ, schema,
                   queue, tables_seen, report, profile_requests, candidate_queries, _alchemy_client>>

\* get_allowed_schemas, first step: get_schema_names; a failure ends the run
get_schema_names ==
    /\ pc = "ListSchemas"
    /\ IF Raises("schemas", DbName)
       THEN pc' = "Failed" /\ conn' = FALSE /\ schemaQ' = schemaQ
       ELSE pc' = "Schemas" /\ conn' = conn /\ schemaQ' = schemaNames
    /\ UNCHANGED <<catalogVars, runsVars, checkpoint, schema, queue,
                   tables_seen, stream, seen, report, profile_requests, candidate_queries, _alchemy_client>>

\* get_allowed_schemas yielding every schema, schema_pattern not consulted
get_allowed_schemas_unfiltered ==
    /\ pc = "Schemas"
    /\ schemaQ # <<>>
    /\ schemaQ' = Tail(schemaQ)
    /\ Yield(gen_schema_containers(Head(schemaQ), get_db_name))
    /\ schema' = Head(schemaQ)
    /\ pc' = "Tables"
    /\ UNCHANGED <<catalogVars, runsVars, checkpoint, conn, queue,
                   tables_seen, report, profile_requests, candidate_queries, _alchemy_client>>

\* get_allowed_schemas, one schema: rejected and reported dropped, or
\* yielded to get_workunits_internal, which emits its container
get_allowed_schemas ==
    /\ pc = "Schemas"
    /\ schemaQ # <<>>
    /\ schemaQ' = Tail(schemaQ)
    /\ LET s == Head(schemaQ) IN
       IF ~allowed(cfg.schema_deny, s)
       THEN /\ report' = report_dropped(report, s \o ".*")
            /\ UNCHANGED <<pc, schema, stream, seen>>
       ELSE /\ Yield(gen_schema_containers(s, get_db_name))
            /\ schema' = s
            /\ pc' = "Tables"
            /\ report' = report
    /\ UNCHANGED <<catalogVars, runsVars, checkpoint, conn, queue,
                   tables_seen, profile_requests, candidate_queries, _alchemy_client>>

\* loop_tables, first step: inspector.get_table_names(schema)
loop_tables_begin ==
    /\ pc = "Tables"
    /\ tables_seen' = {}
    /\ IF ~cfg.include_tables
       THEN pc' = AfterTables /\ queue' = <<>> /\ report' = report
       ELSE IF Raises("tables", schema)
       THEN /\ report' = report_failure(report, schema, "Tables error")
            /\ pc' = AfterTables /\ queue' = <<>>
       ELSE /\ queue' = tableNames[schema]
            /\ pc' = IF tableNames[schema] = <<>> THEN AfterTables ELSE "TablesLoop"
            /\ report' = report
    /\ UNCHANGED <<catalogVars, runsVars, checkpoint, conn, schemaQ, schema,
                   stream, seen, profile_requests, candidate_queries, _alchemy_client>>

\* the test of tables_seen left out
AlreadySeenNever(dataset_name, names) == FALSE

\* loop_tables' test of tables_seen
AlreadySeen(dataset_name, names) == dataset_name \in names

\* loop_tables, one table name
loop_tables ==
    /\ pc = "TablesLoop"
    /\ LET table == Head(queue)
           dataset_name == get_identifier(schema, table)
           out == _process_table(dataset_name, schema, table)
       IN  IF AlreadySeen(dataset_name, tables_seen)
           THEN UNCHANGED <<tables_seen, report, stream, seen>>
           ELSE /\ tables_seen' = tables_seen \cup {dataset_name}
                /\ IF ~allowed(cfg.table_deny, dataset_name)
                   THEN /\ report' = report_dropped(
                                report_entity_scanned(report, "table"), dataset_name)
                        /\ UNCHANGED <<stream, seen>>
                   ELSE /\ Yield(out.emit)
                        /\ report' = report_warning(
                                report_entity_scanned(report, "table"),
                                out.warn \o
                                  IF out.raised
                                  THEN << <<get_identifier(schema, table), "Ingestion error">> >>
                                  ELSE <<>>)
    /\ queue' = Tail(queue)
    /\ pc' = IF Tail(queue) = <<>> THEN AfterTables ELSE "TablesLoop"
    /\ UNCHANGED <<catalogVars, runsVars, checkpoint, conn, schemaQ, schema,
                   profile_requests, candidate_queries, _alchemy_client>>

\* loop_views, first step: inspector.get_view_names(schema)
loop_views_begin ==
    /\ pc = "Views"
    /\ IF ~cfg.include_views
       THEN pc' = AfterViews /\ queue' = <<>> /\ report' = report
       ELSE IF Raises("views", schema)
       THEN /\ report' = report_failure(report, schema, "Views error")
            /\ pc' = AfterViews /\ queue' = <<>>
       ELSE /\ queue' = viewNames[schema]
            /\ pc' = IF viewNames[schema] = <<>> THEN AfterViews ELSE "ViewsLoop"
            /\ report' = report
    /\ UNCHANGED <<catalogVars, runsVars, checkpoint, conn, schemaQ, schema,
                   tables_seen, stream, seen, profile_requests, candidate_queries, _alchemy_client>>

\* loop_views, one view name
loop_views ==
    /\ pc = "ViewsLoop"
    /\ LET view == Head(queue)
           dataset_name == get_identifier(schema, view)
           out == _process_view(dataset_name, schema, view)
       IN  IF ~allowed(cfg.view_deny, dataset_name)
           THEN /\ report' = report_dropped(
                        report_entity_scanned(report, "view"), dataset_name)
                /\ UNCHANGED <<stream, seen>>
           ELSE /\ Yield(out.emit)
                /\ report' = report_warning(
                        report_entity_scanned(report, "view"),
                        out.warn \o
                          IF out.raised
                          THEN << <<get_identifier(schema, view), "Ingestion error">> >>
                          ELSE <<>>)
    /\ queue' = Tail(queue)
    /\ pc' = IF Tail(queue) = <<>> THEN AfterViews ELSE "ViewsLoop"
    /\ UNCHANGED <<catalogVars, runsVars, checkpoint, conn, schemaQ, schema,
                   tables_seen, profile_requests, candidate_queries, _alchemy_client>>

\* a candidate list: None, or the names generate_profile_candidates returned
NoCandidates == [present |-> FALSE, names |-> {}]

\* is_dataset_eligible_for_profiling with profile_pattern not consulted
is_dataset_eligible_without_profile_pattern(dataset_name, profile_candidates) ==
    /\ allowed(cfg.table_deny, dataset_name)
    /\ (~profile_candidates.present \/ dataset_name \in profile_candidates.names)

is_dataset_eligible_for_profiling(dataset_name, profile_candidates) ==
    /\ allowed(cfg.table_deny, dataset_name)
    /\ allowed(cfg.profile_deny, dataset_name)
    /\ (~profile_candidates.present \/ dataset_name \in profile_candidates.names)

\* the test of loop_profiler_requests that decides whether it asks for
\* candidates
candidates_wanted ==
    \/ cfg.profile_if_updated_since_days # "None"
    \/ cfg.profile_table_size_limit # "None"
    \/ cfg.profile_table_row_limit = "None"

\* the try block of loop_profiler_requests with no except clause
profile_candidates_unhandled(sch) ==
    IF ~candidates_wanted THEN [raised |-> FALSE, list |-> NoCandidates]
    ELSE IF ~hcfg.candidates.supported \/ Raises("candidates", sch)
    THEN [raised |-> TRUE, list |-> NoCandidates]
    ELSE [raised |-> FALSE,
          list |-> [present |-> TRUE, names |-> hcfg.candidates.names]]

\* the try block of loop_profiler_requests: the candidates of the schema, None
\* when none are asked for or generate_profile_candidates raises
\* NotImplementedError; any other exception leaves loop_profiler_requests
profile_candidates_of(sch) ==
    IF ~candidates_wanted THEN [raised |-> FALSE, list |-> NoCandidates]
    ELSE IF ~hcfg.candidates.supported
    THEN [raised |-> FALSE, list |-> NoCandidates]
    ELSE IF Raises("candidates", sch)
    THEN [raised |-> TRUE, list |-> NoCandidates]
    ELSE [raised |-> FALSE,
          list |-> [present |-> TRUE, names |-> hcfg.candidates.names]]

\* the look-up of the table among the missing-column-information warnings
\* left out
missing_column_info_ignored(dataset_name) == FALSE

\* self.report.warnings.get(MISSING_COLUMN_INFO) names the table
missing_column_info_warn(dataset_name) ==
    \E i \in DOMAIN report.warnings :
        report.warnings[i] = <<MISSING_COLUMN_INFO, dataset_name>>

\* a request for every name get_table_names returns
ProfilerRequestsOfAll(names, sch, local_seen, profile_candidates) ==
    [i \in 1..Len(names) |-> get_identifier(sch, names[i])]

\* the body of loop_profiler_requests' loop over the table names: the names
\* (pretty_name) of the requests it yields
RECURSIVE ProfilerRequests(_, _, _, _)
ProfilerRequests(names, sch, local_seen, profile_candidates) ==
    IF names = <<>> THEN <<>>
    ELSE LET dataset_name == get_identifier(sch, Head(names)) IN
         IF ~is_dataset_eligible_for_profiling(dataset_name, profile_candidates)
         THEN ProfilerRequests(Tail(names), sch, local_seen, profile_candidates)
         ELSE IF dataset_name \in local_seen
         THEN ProfilerRequests(Tail(names), sch, local_seen, profile_candidates)
         ELSE IF missing_column_info_warn(dataset_name)
         THEN ProfilerRequests(Tail(names), sch, local_seen \cup {dataset_name},
                               profile_candidates)
         ELSE <<dataset_name>> \o
              ProfilerRequests(Tail(names), sch, local_seen \cup {dataset_name},
                               profile_candidates)

\* the same loop: what it reports as dropped
RECURSIVE ProfilerDropped(_, _, _)
ProfilerDropped(names, sch, profile_candidates) ==
    IF names = <<>> THEN <<>>
    ELSE LET dataset_name == get_identifier(sch, Head(names)) IN
         (IF ~is_dataset_eligible_for_profiling(dataset_name, profile_candidates)
             /\ cfg.report_dropped_profiles
          THEN <<"profile of " \o dataset_name>> ELSE <<>>)
         \o ProfilerDropped(Tail(names), sch, profile_candidates)

\* loop_profiler_requests: the candidates are asked for first; then it calls
\* get_table_names again, outside any handler
loop_profiler_requests ==
    /\ pc = "Profile"
    /\ candidate_queries' = IF candidates_wanted
                            THEN Append(candidate_queries, schema)
                            ELSE candidate_queries
    /\ LET got == profile_candidates_of(schema) IN
       IF got.raised \/ Raises("tables", schema)
       THEN /\ pc' = "Failed" /\ conn' = FALSE
            /\ UNCHANGED <<profile_requests, report>>
       ELSE LET reqs == ProfilerRequests(tableNames[schema], schema, {}, got.list)
                dropped == ProfilerDropped(tableNames[schema], schema, got.list)
            IN  /\ profile_requests' = profile_requests \o reqs
                /\ report' = [report EXCEPT !.entities_profiled = @ + Len(reqs),
                                            !.filtered = @ \o dropped]
                /\ pc' = "Schemas" /\ conn' = conn
    /\ UNCHANGED <<catalogVars, runsVars, checkpoint, schemaQ, schema, queue,
                   tables_seen, stream, seen, _alchemy_client>>

\* get_workunits_internal once get_allowed_schemas is exhausted
end_of_schemas ==
    /\ pc = "Schemas"
    /\ schemaQ = <<>>
    /\ IF cfg.profiling /\ profile_requests # <<>>
       THEN pc' = "Profiler" /\ conn' = conn
       ELSE pc' = "Walked" /\ conn' = FALSE
    /\ UNCHANGED <<catalogVars, runsVars, checkpoint, schemaQ, schema, queue,
                   tables_seen, stream, seen, report, profile_requests, candidate_queries, _alchemy_client>>

\* loop_profiler: one profile work unit per request
loop_profiler ==
    /\ pc = "Profiler"
    /\ Yield([i \in 1..Len(profile_requests) |->
                WU("profile", DatasetUrn(profile_requests[i]), NoRef, "", <<>>, "")])
    /\ pc' = "Walked" /\ conn' = FALSE
    /\ UNCHANGED <<catalogVars, runsVars, checkpoint, schemaQ, schema, queue,
                   tables_seen, report, profile_requests, candidate_queries, _alchemy_client>>

\* get_workunits returning the stream of get_workunits_internal unwrapped
get_workunits_unwrapped ==
    /\ pc = "Walked"
    /\ pc' = "Done"
    /\ UNCHANGED <<catalogVars, runsVars, checkpoint, conn, schemaQ, schema,
                   queue, tables_seen, stream, seen, report, profile_requests, candidate_queries, _alchemy_client>>

\* get_workunits running the stale-entity pass also when the stream raised
get_workunits_on_failure ==
    /\ pc \in {"Walked", "Failed"}
    /\ checkpoint # seen
    /\ stream' = stream \o RemovalUnits(stale_removals(seen, checkpoint))
    /\ checkpoint' = seen
    /\ pc' = IF pc = "Failed" THEN "Failed" ELSE "Done"
    /\ UNCHANGED <<catalogVars, runsVars, conn, schemaQ, schema, queue,
                   tables_seen, seen, report, profile_requests, candidate_queries, _alchemy_client>>

\* get_workunits yielding the removals but leaving the old checkpoint in place
get_workunits_keeps_checkpoint ==
    /\ pc = "Walked"
    /\ stream' = stream \o RemovalUnits(stale_removals(seen, checkpoint))
    /\ pc' = "Done"
    /\ UNCHANGED <<catalogVars, runsVars, checkpoint, conn, schemaQ, schema,
                   queue, tables_seen, seen, report, profile_requests, candidate_queries, _alchemy_client>>

\* get_workunits: auto_stale_entity_removal, once the wrapped stream of
\* get_workunits_internal is exhausted
get_workunits ==
    /\ pc = "Walked"
    /\ stream' = stream \o RemovalUnits(stale_removals(seen, checkpoint))
    /\ checkpoint' = seen
    /\ pc' = "Done"
    /\ UNCHANGED <<catalogVars, runsVars, conn, schemaQ, schema, queue,
                   tables_seen, seen, report, profile_requests, candidate_queries, _alchemy_client>>

\* ------------------------------------------------------------ Presto on Hive
\* The Hive metastore: its databases (DBS, by name descending), and the rows
\* the tables query and the views queries read.
HiveDbs == <<"hdb2", "hdb1">>
HiveDbSet == {HiveDbs[i] : i \in 1..Len(HiveDbs)}

HiveRow(sch, table, col, type, part) ==
    [schema_name |-> sch, table_name |-> table, col_name |-> col,
     col_type |-> type, is_partition_col |-> part]

\* the rows of _TABLES_SQL_STATEMENT, ORDER BY tbl_id desc, col_sort_order asc
SortedTableRows ==
    << HiveRow("hdb2", "b", "id", "int", FALSE),
       HiveRow("hdb1", "a", "id", "int", FALSE),
       HiveRow("hdb1", "a", "p", "string", TRUE) >>

\* the views of the metastore: their columns and their definition text
HiveViews ==
    << [schema_name |-> "hdb2", table_name |-> "w",
        columns |-> << [col_name |-> "id", col_type |-> "int"] >>,
        text |-> "SELECT * FROM foo"],
       [schema_name |-> "hdb1", table_name |-> "v",
        columns |-> << [col_name |-> "id", col_type |-> "int"] >>,
        text |-> "SELECT * FROM foo"] >>

\* the same rows as the query returns them when the rows of one table are
\* not next to each other
UngroupedTableRows ==
    << HiveRow("hdb1", "a", "id", "int", FALSE),
       HiveRow("hdb2", "b", "id", "int", FALSE),
       HiveRow("hdb1", "a", "p", "string", TRUE) >>

NoMetastore == [tables |-> <<>>, views |-> <<>>]
HiveMetastore == [tables |-> SortedTableRows, views |-> HiveViews]
UngroupedMetastore == [tables |-> UngroupedTableRows, views |-> HiveViews]

\* generate_profile_candidates of the base class: it raises NotImplementedError
NotSupported == [supported |-> FALSE, names |-> {}]

\* the class SQLAlchemySource itself: no Presto-on-Hive configuration;
\* location is the third value its get_table_properties returns (None, here
\* "", unless a dialect overrides the method to provide one)
BaseSource ==
    [source |-> "sqlalchemy", scheme |-> "", metastore_db_name |-> "",
     database |-> "", mode |-> "", database_deny |-> {},
     schemas_where |-> {}, tables_where |-> {}, views_where |-> {},
     include_catalog_name_in_ids |-> FALSE, candidates |-> NotSupported,
     location |-> ""]

\* PrestoOnHiveConfig. A where-clause suffix is given by the Hive databases
\* whose rows it admits (all of them for the empty suffix), an unset string
\* by "".
HiveDefault ==
    [source |-> "presto_on_hive", scheme |-> "mysql+pymysql",
     metastore_db_name |-> "", database |-> "metastore", mode |-> "presto",
     database_deny |-> {}, schemas_where |-> HiveDbSet,
     tables_where |-> HiveDbSet, views_where |-> HiveDbSet,
     include_catalog_name_in_ids |-> FALSE, candidates |-> NotSupported,
     location |-> ""]
HiveConfigs ==
    { HiveDefault,
      [HiveDefault EXCEPT !.mode = "hive"],
      [HiveDefault EXCEPT !.metastore_db_name = "metastore", !.database = "hdb1"],
      [HiveDefault EXCEPT !.metastore_db_name = "metastore", !.database = ""],
      [HiveDefault EXCEPT !.scheme = "postgresql+psycopg2"],
      [HiveDefault EXCEPT !.database_deny = {"hdb2"}],
      [HiveDefault EXCEPT !.database_deny = {"hdb2"}, !.mode = "hive"],
      [HiveDefault EXCEPT !.schemas_where = {"hdb1"}],
      [HiveDefault EXCEPT !.include_catalog_name_in_ids = TRUE] }

\* inspector.get_schema_names() on the metastore's own database server
MetastoreSchemas(scheme) ==
    IF scheme = "mysql+pymysql" THEN <<"information_schema", "metastore">>
    ELSE <<"information_schema", "public">>

\* the calls of the Presto-on-Hive loops that may raise
HiveFaultPoints ==
    { <<"connect", DbName>>, <<"fields", "hdb1.a">>, <<"decode", "hdb2.w">> }
HiveFaultSets == {F \in SUBSET HiveFaultPoints : Cardinality(F) <= MaxFaults}

\* "mysql" in self.config.scheme
IsMysql(scheme) == scheme = "mysql+pymysql"

\* the clause restricting to the configured database whenever one is
\* configured
_get_db_filter_by_database ==
    IF hcfg.database # "" THEN {hcfg.database} ELSE HiveDbSet

\* _get_db_filter_where_clause: the Hive databases the clause admits
_get_db_filter_where_clause ==
    IF hcfg.metastore_db_name = "" THEN HiveDbSet
    ELSE IF hcfg.database # "" THEN {hcfg.database}
    ELSE HiveDbSet

\* the schemas query of gen_schema_containers
SchemasQuery ==
    LET Admit(d) == d \in hcfg.schemas_where /\ d \in _get_db_filter_where_clause
    IN  SelectSeq(HiveDbs, Admit)

\* gen_schema_containers of PrestoOnHiveSource: one container per row of the
\* schemas query that database_pattern allows; the schema argument is unused
RECURSIVE hive_schema_containers(_, _)
hive_schema_containers(rows, database) ==
    IF rows = <<>> THEN <<>>
    ELSE (IF allowed(hcfg.database_deny, Head(rows))
          THEN gen_schema_containers(Head(rows), database) ELSE <<>>)
         \o hive_schema_containers(Tail(rows), database)

hive_gen_schema_containers(sch, database) ==
    hive_schema_containers(SchemasQuery, database)

\* _get_table_key
_get_table_key(row) == <<row.schema_name, row.table_name>>

\* itertools.groupby(iter_res, self._get_table_key): runs of consecutive rows
\* with the same key
RECURSIVE groupby(_)
groupby(rows) ==
    IF rows = <<>> THEN <<>>
    ELSE LET rest == groupby(Tail(rows))
             k == _get_table_key(Head(rows))
         IN  IF rest # <<>> /\ rest[1].key = k
             THEN <<[key |-> k, rows |-> <<Head(rows)>> \o rest[1].rows]>> \o Tail(rest)
             ELSE <<[key |-> k, rows |-> <<Head(rows)>>]>> \o rest

\* the tables query of loop_tables
TablesQuery ==
    LET Admit(r) == /\ r.schema_name \in hcfg.tables_where
                    /\ r.schema_name \in _get_db_filter_where_clause
    IN  SelectSeq(metastore.tables, Admit)

\* the views query of get_presto_view_columns / get_hive_view_columns
ViewsQuery ==
    LET Admit(r) == /\ r.schema_name \in hcfg.views_where
                    /\ r.schema_name \in _get_db_filter_where_clause
    IN  SelectSeq(metastore.views, Admit)

\* get_schema_fields_for_hive_column, as get_schema_fields_for_column calls it
HiveType(col_type) ==
    CASE col_type = "int" -> "Number"
      [] col_type = "string" -> "String"
      [] OTHER -> "Null"

hive_get_schema_fields(columns) ==
    [i \in 1..Len(columns) |->
        [path |-> columns[i].col_name, type |-> HiveType(columns[i].col_type),
         isPartOfKey |-> FALSE]]

\* the schema name loop_tables and the view generators build identifiers from
hive_schema_name(key_schema) ==
    IF hcfg.include_catalog_name_in_ids
    THEN get_db_name \o "." \o key_schema ELSE key_schema

\* the early return of loop_tables / loop_views
NotTheMetastoreSchema(sch) ==
    /\ IsMysql(hcfg.scheme)
    /\ hcfg.metastore_db_name # ""
    /\ hcfg.metastore_db_name # sch

\* get_allowed_schemas, one schema, with gen_schema_containers overridden
hive_get_allowed_schemas ==
    /\ pc = "Schemas"
    /\ schemaQ # <<>>
    /\ schemaQ' = Tail(schemaQ)
    /\ LET s == Head(schemaQ) IN
       IF ~allowed(cfg.schema_deny, s)
       THEN /\ report' = report_dropped(report, s \o ".*")
            /\ UNCHANGED <<pc, schema, stream, seen>>
       ELSE /\ Yield(hive_gen_schema_containers(s, get_db_name))
            /\ schema' = s
            /\ pc' = "Tables"
            /\ report' = report
    /\ UNCHANGED <<catalogVars, runsVars, checkpoint, conn, queue,
                   tables_seen, profile_requests, candidate_queries, _alchemy_client>>

\* PrestoOnHiveSource.loop_tables, up to the query
hive_loop_tables_begin ==
    /\ pc = "Tables"
    /\ LET groups == groupby(TablesQuery) IN
       IF ~cfg.include_tables \/ NotTheMetastoreSchema(schema)
       THEN pc' = AfterTables /\ queue' = <<>>
       ELSE /\ queue' = groups
            /\ pc' = IF groups = <<>> THEN AfterTables ELSE "TablesLoop"
    /\ UNCHANGED <<catalogVars, runsVars, checkpoint, conn, schemaQ, schema,
                   tables_seen, stream, seen, report, profile_requests, candidate_queries, _alchemy_client>>

\* PrestoOnHiveSource.loop_tables, one group of rows; nothing in the loop
\* catches an exception
hive_loop_tables ==
    /\ pc = "TablesLoop"
    /\ LET key == Head(queue).key
           columns == Head(queue).rows
           dataset_name == get_identifier(hive_schema_name(key[1]), key[2])
           urn == DatasetUrn(dataset_name)
           scanned == report_entity_scanned(report, "table")
       IN  IF ~allowed(hcfg.database_deny, key[1]) \/ ~allowed(cfg.table_deny, dataset_name)
           THEN /\ report' = report_dropped(scanned, dataset_name)
                /\ pc' = IF Tail(queue) = <<>> THEN AfterTables ELSE "TablesLoop"
                /\ UNCHANGED <<stream, seen, conn>>
           ELSE IF Raises("fields", dataset_name)
           THEN /\ report' = scanned
                /\ pc' = "Failed" /\ conn' = FALSE
                /\ UNCHANGED <<stream, seen>>
           ELSE /\ report' = scanned
                /\ Yield(<< add_table_to_schema_container(urn, get_db_name, key[1]),
                            WU("dataset", urn, NoRef, "table",
                               hive_get_schema_fields(columns), ""),
                            WU("subtypes", urn, NoRef, "table", <<>>, "") >>)
                /\ pc' = IF Tail(queue) = <<>> THEN AfterTables ELSE "TablesLoop"
                /\ conn' = conn
    /\ queue' = Tail(queue)
    /\ UNCHANGED <<catalogVars, runsVars, checkpoint, schemaQ, schema,
                   tables_seen, profile_requests, candidate_queries, _alchemy_client>>

\* the rows get_hive_view_columns groups: one row per column of a view
RECURSIVE HiveViewRows(_)
HiveViewRows(views) ==
    IF views = <<>> THEN <<>>
    ELSE LET v == Head(views) IN
         [i \in 1..Len(v.columns) |->
            [schema_name |-> v.schema_name, table_name |-> v.table_name,
             col_name |-> v.columns[i].col_name, col_type |-> v.columns[i].col_type,
             text |-> v.text]]
         \o HiveViewRows(Tail(views))

\* PrestoOnHiveSource.loop_views, up to the query: in hive mode the grouped
\* column rows, else one row per Presto view
hive_loop_views_begin ==
    /\ pc = "Views"
    /\ LET items == IF hcfg.mode = "hive"
                    THEN groupby(HiveViewRows(ViewsQuery))
                    ELSE [i \in 1..Len(ViewsQuery) |->
                            [key |-> _get_table_key(ViewsQuery[i]),
                             rows |-> <<ViewsQuery[i]>>]]
       IN  IF ~cfg.include_views \/ NotTheMetastoreSchema(schema)
           THEN pc' = AfterViews /\ queue' = <<>>
           ELSE /\ queue' = items
                /\ pc' = IF items = <<>> THEN AfterViews ELSE "ViewsLoop"
    /\ UNCHANGED <<catalogVars, runsVars, checkpoint, conn, schemaQ, schema,
                   tables_seen, stream, seen, report, profile_requests, candidate_queries, _alchemy_client>>

\* PrestoOnHiveSource.loop_views, one ViewDataset of get_hive_view_columns or
\* get_presto_view_columns; _get_presto_view_column_metadata raises on a text
\* it cannot decode, and nothing catches it
hive_loop_views ==
    /\ pc = "ViewsLoop"
    /\ LET key == Head(queue).key
           rows == Head(queue).rows
           dataset_name == get_identifier(hive_schema_name(key[1]), key[2])
           urn == DatasetUrn(dataset_name)
           columns == IF hcfg.mode = "hive" THEN rows ELSE rows[1].columns
           text == rows[Len(rows)].text
           scanned == report_entity_scanned(report, "view")
           more == IF Tail(queue) = <<>> THEN AfterViews ELSE "ViewsLoop"
       IN  IF hcfg.mode = "hive" /\ ~allowed(hcfg.database_deny, key[1])
           THEN /\ report' = report_dropped(report, dataset_name)
                /\ pc' = more
                /\ UNCHANGED <<stream, seen, conn>>
           ELSE IF hcfg.mode # "hive" /\ Raises("decode", dataset_name)
           THEN /\ pc' = "Failed" /\ conn' = FALSE
                /\ UNCHANGED <<stream, seen, report>>
           ELSE IF ~allowed(cfg.view_deny, dataset_name)
           THEN /\ report' = report_dropped(scanned, dataset_name)
                /\ pc' = more
                /\ UNCHANGED <<stream, seen, conn>>
           ELSE /\ report' = scanned
                /\ Yield(<< add_table_to_schema_container(urn, get_db_name, key[1]),
                            WU("dataset", urn, NoRef, "view",
                               hive_get_schema_fields(columns), text),
                            WU("subtypes", urn, NoRef, "view", <<>>, ""),
                            ViewPropertiesWU(urn, text) >>)
                /\ pc' = more
                /\ conn' = conn
    /\ queue' = Tail(queue)
    /\ UNCHANGED <<catalogVars, runsVars, checkpoint, schemaQ, schema,
                   tables_seen, profile_requests, candidate_queries, _alchemy_client>>

\* PrestoOnHiveSource.close, which the caller of the source makes once the
\* run is over: it closes the connection of the client
close ==
    /\ pc \in {"Done", "Failed"}
    /\ _alchemy_client' = [_alchemy_client EXCEPT !.connection = "closed"]
    /\ UNCHANGED <<catalogVars, runsVars, checkpoint, pc, conn, schemaQ, schema,
                   queue, tables_seen, stream, seen, report, profile_requests,
                   candidate_queries>>

\* ------------------------------------------------------------ specifications
CatalogOf(tables1, views1) ==
    [t |-> [s \in {"s1", "s2"} |-> IF s = "s1" THEN tables1 ELSE <<"t1">>],
     v |-> [s \in {"s1", "s2"} |-> IF s = "s1" THEN views1 ELSE <<"v1">>]]

NoCall == [op |-> "none"]

\* the two tables as the module leaves them after import
DefaultTypes ==
    /\ _field_type_mapping = FieldTypeMapping
    /\ _known_unknown_field_types = KnownUnknownFieldTypes

FreshRun ==
    /\ pc = "Idle"
    /\ conn = FALSE
    /\ schemaQ = <<>>
    /\ schema = ""
    /\ queue = <<>>
    /\ tables_seen = {}
    /\ stream = <<>>
    /\ seen = {}
    /\ report = EmptyReport
    /\ profile_requests = <<>>
    /\ candidate_queries = <<>>
    /\ _alchemy_client = SQLAlchemyClient

InitOver(CfgSet, CheckpointSet, ViewNameChoice) ==
    /\ cfg \in CfgSet
    /\ \E l \in SeqsUpTo(TableNameSet, MaxNames) : tableNames = CatalogOf(l, <<>>).t
    /\ \E l \in SeqsUpTo(ViewNameChoice, MaxNames) : viewNames = CatalogOf(<<>>, l).v
    /\ faults \in FaultSets
    /\ exc = "Exception"
    /\ DefaultTypes
    /\ hcfg = BaseSource
    /\ schemaNames = SchemaNames
    /\ metastore = NoMetastore
    /\ checkpoint \in CheckpointSet
    /\ checkpoint0 = checkpoint
    /\ run = "first"
    /\ changed = FALSE
    /\ prevStream = <<>>
    /\ FreshRun
    /\ last_call = NoCall

Init == InitOver(Configs, OldCheckpoints, ViewNameSet)

Walk ==
    \/ get_inspectors
    \/ gen_database_containers
    \/ get_schema_names
    \/ get_allowed_schemas
    \/ loop_tables_begin
    \/ loop_tables
    \/ loop_views_begin
    \/ loop_views
    \/ loop_profiler_requests
    \/ end_of_schemas
    \/ loop_profiler
    \/ get_workunits

Next == Walk

Spec == Init /\ [][Next]_vars

\* The job is run a second time, by a new source object: against the same
\* catalog, or after a table was dropped, or with other calls raising.
NextCatalogs ==
    {[t |-> tableNames, f |-> faults]}
    \cup (IF tableNames["s1"] # <<>>
          THEN {[t |-> [tableNames EXCEPT !["s1"] = Tail(@)], f |-> faults]}
          ELSE {})
    \cup (IF faults = {}
          THEN {[t |-> tableNames, f |-> {<<"pk", "s1.t1">>}],
                [t |-> tableNames, f |-> {<<"tables", "s1">>}]}
          ELSE {[t |-> tableNames, f |-> {}]})

next_run ==
    /\ pc \in {"Done", "Failed"}
    /\ run = "first"
    /\ run' = "second"
    /\ prevStream' = stream
    /\ checkpoint0' = checkpoint
    /\ \E c \in NextCatalogs :
         /\ tableNames' = c.t
         /\ faults' = c.f
         /\ changed' = (c.t # tableNames \/ c.f # faults)
    /\ pc' = "Idle"
    /\ conn' = FALSE
    /\ schemaQ' = <<>>
    /\ schema' = ""
    /\ queue' = <<>>
    /\ tables_seen' = {}
    /\ stream' = <<>>
    /\ seen' = {}
    /\ report' = EmptyReport
    /\ profile_requests' = <<>>
    /\ candidate_queries' = <<>>
    /\ _alchemy_client' = _alchemy_client
    /\ UNCHANGED <<cfg, viewNames, exc, hcfg, schemaNames, metastore, checkpoint, last_call, typeVars>>

NextRerun == Walk \/ next_run

InitRerun == InitOver(Configs, OldCheckpoints, {"v1"})

SpecRerun == InitRerun /\ [][NextRerun]_vars

\* The generic walk over one catalog, with the inspector calls made for a
\* single table or view raising, and each class of exception they may raise.
EntityFaultPoints ==
    { <<"columns", "s1.t1">>, <<"comment", "s1.t1">>, <<"pk", "s1.t1">>,
      <<"fks", "s1.t1">>, <<"columns", "s1.v1">>, <<"comment", "s1.v1">>,
      <<"viewdef", "s1.v1">> }
\* get_table_comment raising for the schema name as it is and quoted as well
RetryFaultSets ==
    { {<<"comment", dn>>, <<"comment_quoted", dn>>} : dn \in {"s1.t1", "s1.v1"} }
EntityFaultSets ==
    {F \in SUBSET EntityFaultPoints : Cardinality(F) <= MaxFaults} \cup RetryFaultSets

\* a dialect whose get_table_properties provides the location of a table
LocationSource == [BaseSource EXCEPT !.location = "s3://bucket/path"]

InitEntityFaults ==
    /\ cfg \in {DefaultConfig, [DefaultConfig EXCEPT !.profiling = TRUE],
                [DefaultConfig EXCEPT !.profiling = TRUE, !.include_tables = FALSE]}
    /\ tableNames = CatalogOf(<<"t1", "t2">>, <<>>).t
    /\ viewNames = CatalogOf(<<>>, <<"v1", "v2">>).v
    /\ faults \in EntityFaultSets
    /\ exc \in ExcKinds
    /\ DefaultTypes
    /\ hcfg \in {BaseSource, LocationSource}
    /\ schemaNames = SchemaNames
    /\ metastore = NoMetastore
    /\ checkpoint = {}
    /\ checkpoint0 = checkpoint
    /\ run = "first"
    /\ changed = FALSE
    /\ prevStream = <<>>
    /\ FreshRun
    /\ last_call = NoCall

SpecEntityFaults == InitEntityFaults /\ [][Next]_vars

\* Calls of AllowDenyPattern.allowed, over patterns of up to MaxRules allow
\* rules and MaxRules deny rules.
FilterNames == {"orders", "orders_tmp", "users"}
FilterRules == (SUBSET FilterNames) \ {{}}
RuleSets == {R \in SUBSET FilterRules : Cardinality(R) <= MaxRules}

WalkAtRest ==
    /\ cfg = DefaultConfig
    /\ tableNames = CatalogOf(<<>>, <<>>).t
    /\ viewNames = CatalogOf(<<>>, <<>>).v
    /\ faults = {}
    /\ exc = "Exception"
    /\ DefaultTypes
    /\ hcfg = BaseSource
    /\ schemaNames = SchemaNames
    /\ metastore = NoMetastore
    /\ checkpoint = {}
    /\ checkpoint0 = {}
    /\ run = "first"
    /\ changed = FALSE
    /\ prevStream = <<>>
    /\ FreshRun

\* the pattern and the name of the call are drawn here, the call applies
\* allowed to them
InitFilter ==
    /\ WalkAtRest
    /\ \E allow \in RuleSets, deny \in RuleSets, name \in FilterNames :
          last_call = [op |-> "input", pattern |-> [allow |-> allow, deny |-> deny],
                       name |-> name]

call_allowed ==
    /\ last_call' = [op |-> "allowed", pattern |-> last_call.pattern,
                     name |-> last_call.name,
                     result |-> AllowDenyPattern_allowed(last_call.pattern,
                                                         last_call.name)]
    /\ UNCHANGED <<cfg, tableNames, viewNames, faults, exc, hcfg, schemaNames,
                   metastore, walkVars, typeVars>>

NextFilter == call_allowed

SpecFilter == InitFilter /\ [][NextFilter]_vars

\* Calls of register_custom_type and get_column_type, in any order. The types
\* registered: one that derives from no mapped type, one that derives from
\* String, and String itself.
NativeTypes == {"INTEGER", "VARCHAR", "ENUM", "CLOB", "INTERVAL", "GEOMETRY", "MYTEXT"}
CustomTypes == {"GEOMETRY", "MYTEXT", "String"}
Outputs == {"Record", "None"}

InitTypes == WalkAtRest /\ last_call = NoCall

\* register_custom_type: with an output the dict entry of tp is set (a new
\* key goes to the end, a present key keeps its place), without one tp is
\* added to the known unknown types
register_custom_type ==
    /\ \E tp \in CustomTypes, output \in Outputs :
          LET at == {i \in DOMAIN _field_type_mapping : _field_type_mapping[i][1] = tp}
          IN  IF output # "None"
              THEN /\ _field_type_mapping' =
                        IF at = {}
                        THEN Append(_field_type_mapping, <<tp, output>>)
                        ELSE [i \in DOMAIN _field_type_mapping |->
                                IF i \in at THEN <<tp, output>>
                                ELSE _field_type_mapping[i]]
                   /\ UNCHANGED _known_unknown_field_types
              ELSE /\ _known_unknown_field_types' = _known_unknown_field_types \cup {tp}
                   /\ UNCHANGED _field_type_mapping
    /\ UNCHANGED <<cfg, tableNames, viewNames, faults, exc, hcfg, schemaNames,
                   metastore, walkVars, last_call>>

call_get_column_type ==
    /\ \E column_type \in NativeTypes :
          last_call' = [op |-> "get_column_type", column_type |-> column_type,
                        mapping |-> _field_type_mapping,
                        unknown |-> _known_unknown_field_types,
                        result |-> get_column_type(column_type)]
    /\ UNCHANGED <<cfg, tableNames, viewNames, faults, exc, hcfg, schemaNames,
                   metastore, walkVars, typeVars>>

NextTypes == register_custom_type \/ call_get_column_type

SpecTypes == InitTypes /\ [][NextTypes]_vars

\* Calls of get_platform_from_sqlalchemy_uri.
\* str.startswith and str.find
StartsWith(x, prefix) ==
    Len(x) >= Len(prefix) /\ SubSeq(x, 1, Len(prefix)) = prefix
Find(x, sub) ==
    LET at == {i \in 1..(Len(x) - Len(sub) + 1) : SubSeq(x, i, i + Len(sub) - 1) = sub}
    IN  IF at = {} THEN -1 ELSE (CHOOSE i \in at : \A j \in at : i <= j) - 1

\* a tester: the uri starts with one of starts_with and, if and_find is
\* given, holds it at a position greater than 0; or it starts with one of
\* or_starts_with
Tester(platform, starts_with, and_find, or_starts_with) ==
    [platform |-> platform, starts_with |-> starts_with, and_find |-> and_find,
     or_starts_with |-> or_starts_with]

_platform_alchemy_uri_tester_gen(platform, opt_starts_with) ==
    Tester(platform, {IF opt_starts_with = "" THEN platform ELSE opt_starts_with},
           "", {})

\* the redshift entry of the table
RedshiftTester ==
    Tester("redshift", {"jdbc:postgres:", "postgresql"}, "redshift.amazonaws",
           {"redshift"})

\* the table with the postgres entry moved before the redshift entry
PlatformTableMoved ==
    << _platform_alchemy_uri_tester_gen("athena", "awsathena"),
       _platform_alchemy_uri_tester_gen("bigquery", ""),
       _platform_alchemy_uri_tester_gen("clickhouse", ""),
       _platform_alchemy_uri_tester_gen("druid", ""),
       _platform_alchemy_uri_tester_gen("hana", ""),
       _platform_alchemy_uri_tester_gen("hive", ""),
       _platform_alchemy_uri_tester_gen("mongodb", ""),
       _platform_alchemy_uri_tester_gen("mssql", ""),
       _platform_alchemy_uri_tester_gen("mysql", ""),
       _platform_alchemy_uri_tester_gen("oracle", ""),
       _platform_alchemy_uri_tester_gen("pinot", ""),
       _platform_alchemy_uri_tester_gen("presto", ""),
       _platform_alchemy_uri_tester_gen("postgres", "postgresql"),
       RedshiftTester,
       _platform_alchemy_uri_tester_gen("snowflake", ""),
       _platform_alchemy_uri_tester_gen("trino", ""),
       _platform_alchemy_uri_tester_gen("vertica", "") >>

\* the OrderedDict, in insertion order
PLATFORM_TO_SQLALCHEMY_URI_TESTER_MAP ==
    << _platform_alchemy_uri_tester_gen("athena", "awsathena"),
       _platform_alchemy_uri_tester_gen("bigquery", ""),
       _platform_alchemy_uri_tester_gen("clickhouse", ""),
       _platform_alchemy_uri_tester_gen("druid", ""),
       _platform_alchemy_uri_tester_gen("hana", ""),
       _platform_alchemy_uri_tester_gen("hive", ""),
       _platform_alchemy_uri_tester_gen("mongodb", ""),
       _platform_alchemy_uri_tester_gen("mssql", ""),
       _platform_alchemy_uri_tester_gen("mysql", ""),
       _platform_alchemy_uri_tester_gen("oracle", ""),
       _platform_alchemy_uri_tester_gen("pinot", ""),
       _platform_alchemy_uri_tester_gen("presto", ""),
       RedshiftTester,
       _platform_alchemy_uri_tester_gen("postgres", "postgresql"),
       _platform_alchemy_uri_tester_gen("snowflake", ""),
       _platform_alchemy_uri_tester_gen("trino", ""),
       _platform_alchemy_uri_tester_gen("vertica", "") >>

\* tester(sqlalchemy_uri)
Accepts(tester, x) ==
    \/ /\ \E prefix \in tester.starts_with : StartsWith(x, prefix)
       /\ tester.and_find # "" => Find(x, tester.and_find) > 0
    \/ \E prefix \in tester.or_starts_with : StartsWith(x, prefix)

\* the loop over the items of the table, from entry i on
RECURSIVE PlatformFrom(_, _)
PlatformFrom(i, sqlalchemy_uri) ==
    IF i > Len(PLATFORM_TO_SQLALCHEMY_URI_TESTER_MAP) THEN "external"
    ELSE IF Accepts(PLATFORM_TO_SQLALCHEMY_URI_TESTER_MAP[i], sqlalchemy_uri)
    THEN PLATFORM_TO_SQLALCHEMY_URI_TESTER_MAP[i].platform
    ELSE PlatformFrom(i + 1, sqlalchemy_uri)

get_platform_from_sqlalchemy_uri(sqlalchemy_uri) == PlatformFrom(1, sqlalchemy_uri)

\* the uris of the calls: a scheme, with or without a driver, and a host
UriSchemes ==
    {"awsathena", "athena", "bigquery", "clickhouse", "druid", "hana", "hive",
     "mongodb", "mssql", "mysql", "oracle", "pinot", "presto", "redshift",
     "jdbc:postgres:", "postgresql", "postgres", "postgre", "snowflake",
     "trino", "vertica", "sqlite", "db2", ""}
UriRests ==
    {"://host:5439/db", "+driver://host/db",
     "://cluster.redshift.amazonaws.com:5439/db", "redshift.amazonaws"}
Uris == {scheme \o rest : scheme \in UriSchemes, rest \in UriRests}

InitPlatform ==
    /\ WalkAtRest
    /\ \E uri \in Uris : last_call = [op |-> "input", uri |-> uri]

call_get_platform_from_sqlalchemy_uri ==
    /\ last_call' = [op |-> "get_platform_from_sqlalchemy_uri",
                     uri |-> last_call.uri,
                     result |-> get_platform_from_sqlalchemy_uri(last_call.uri)]
    /\ UNCHANGED <<cfg, tableNames, viewNames, faults, exc, hcfg, schemaNames,
                   metastore, walkVars, typeVars>>

NextPlatform == call_get_platform_from_sqlalchemy_uri

SpecPlatform == InitPlatform /\ [][NextPlatform]_vars

\* The generic walk with profiling enabled, over a catalog with a table that
\* has no columns (t0), a table whose column list names a column twice (td)
\* and a view that has no columns (v0); over the profiling options, a dialect
\* that supports generate_profile_candidates or not, and its query raising.
Thresholds == {"None", "1"}
ProfilingConfigs ==
    { [DefaultConfig EXCEPT !.profiling = TRUE, !.table_deny = td,
                            !.profile_deny = pd, !.report_dropped_profiles = r,
                            !.profile_if_updated_since_days = days,
                            !.profile_table_size_limit = size,
                            !.profile_table_row_limit = rows] :
        td \in {{}, {"s1.t2"}}, pd \in {{}, {"s1.td"}}, r \in BOOLEAN,
        days \in Thresholds, size \in Thresholds, rows \in Thresholds }

\* a dialect whose generate_profile_candidates returns the names of a schema
DialectSource ==
    [BaseSource EXCEPT !.candidates =
        [supported |-> TRUE, names |-> {"s1.t1", "s1.t0", "s2.t1"}]]

ProfilingFaultSets ==
    { {}, {<<"candidates", "s1">>}, {<<"columns", "s1.t1">>} }

InitProfiling ==
    /\ cfg \in ProfilingConfigs
    /\ tableNames = CatalogOf(<<"t1", "t2", "t0", "td">>, <<>>).t
    /\ viewNames = CatalogOf(<<>>, <<"v1", "v0">>).v
    /\ faults \in ProfilingFaultSets
    /\ exc = "Exception"
    /\ DefaultTypes
    /\ hcfg \in {BaseSource, DialectSource}
    /\ schemaNames = SchemaNames
    /\ metastore = NoMetastore
    /\ checkpoint = {}
    /\ checkpoint0 = checkpoint
    /\ run = "first"
    /\ changed = FALSE
    /\ prevStream = <<>>
    /\ FreshRun
    /\ last_call = NoCall

SpecProfiling == InitProfiling /\ [][Next]_vars

\* PrestoOnHiveSource: the walk of the base class with gen_schema_containers,
\* loop_tables and loop_views overridden
InitHive ==
    /\ cfg \in {DefaultConfig,
                [DefaultConfig EXCEPT !.table_deny = {"hdb1.a"}, !.view_deny = {"hdb1.v"}]}
    /\ tableNames = CatalogOf(<<>>, <<>>).t
    /\ viewNames = CatalogOf(<<>>, <<>>).v
    /\ faults \in HiveFaultSets
    /\ exc = "Exception"
    /\ DefaultTypes
    /\ hcfg \in HiveConfigs
    /\ schemaNames = MetastoreSchemas(hcfg.scheme)
    /\ metastore \in {HiveMetastore, UngroupedMetastore}
    /\ checkpoint \in OldCheckpoints
    /\ checkpoint0 = checkpoint
    /\ run = "first"
    /\ changed = FALSE
    /\ prevStream = <<>>
    /\ FreshRun
    /\ last_call = NoCall

NextHive ==
    \/ get_inspectors
    \/ gen_database_containers
    \/ get_schema_names
    \/ hive_get_allowed_schemas
    \/ hive_loop_tables_begin
    \/ hive_loop_tables
    \/ hive_loop_views_begin
    \/ hive_loop_views
    \/ end_of_schemas
    \/ get_workunits
    \/ close

SpecHive == InitHive /\ [][NextHive]_vars

\* ------------------------------------------------------------ properties
Range(q) == {q[i] : i \in DOMAIN q}

\* the positions of the stream that hold a dataset entity of this urn and subtype
DatasetUnits(str, urn, etype) ==
    {i \in DOMAIN str : str[i].kind = "dataset" /\ str[i].urn = urn /\ str[i].etype = etype}

RemovalUnitsOf(str, urn) ==
    {i \in DOMAIN str : str[i].kind = "removal" /\ str[i].urn = urn}

NoRemovals(str) == \A i \in DOMAIN str : str[i].kind # "removal"

\* the entities (containers and datasets) a stream carries
EntityUnits(str) == {str[i] : i \in {j \in DOMAIN str : str[j].kind \in EntityKinds}}

\* loop_tables of this schema ran and got its list of names
TablesWalked(s) ==
    /\ allowed(cfg.schema_deny, s)
    /\ cfg.include_tables
    /\ ~Raises("tables", s)

\* the table was listed, passed the table filter and was handed to _process_table
TableProcessed(s, n) ==
    /\ TablesWalked(s)
    /\ n \in Range(tableNames[s])
    /\ allowed(cfg.table_deny, get_identifier(s, n))

\* the view was listed, passed the view filter and was handed to _process_view
ViewProcessed(s, n) ==
    /\ allowed(cfg.schema_deny, s)
    /\ cfg.include_views
    /\ ~Raises("views", s)
    /\ n \in Range(viewNames[s])
    /\ allowed(cfg.view_deny, get_identifier(s, n))

RECURSIVE DistinctTables(_)
DistinctTables(schemas) ==
    IF schemas = <<>> THEN 0
    ELSE (IF TablesWalked(Head(schemas))
          THEN Cardinality(Range(tableNames[Head(schemas)])) ELSE 0)
         + DistinctTables(Tail(schemas))

\* C1: after a walk that ends without a fatal failure, every identifier of
\* the previous checkpoint that is not in the run's seen-set gets exactly one
\* removal signal, no other identifier gets one, and the checkpoint persisted
\* afterwards is the seen-set.
C1_StaleRemoval ==
    pc = "Done" =>
        /\ \A X \in checkpoint0 \ seen : Cardinality(RemovalUnitsOf(stream, X)) = 1
        /\ \A i \in DOMAIN stream :
              stream[i].kind = "removal" => stream[i].urn \in checkpoint0 \ seen
        /\ checkpoint = seen

C1_Witness ==
    /\ pc = "Done"
    /\ "dataset:s1.old" \in checkpoint0
    /\ "dataset:s1.t1" \in checkpoint0 \cap seen
    /\ RemovalUnitsOf(stream, "dataset:s1.old") # {}
    /\ "dataset:s1.old" \notin checkpoint

\* C2: when the run fails fatally, at whatever point of the walk, no removal
\* signal is emitted and the persisted checkpoint is what it was before the run.
C2_FatalKeepsCheckpoint ==
    pc = "Failed" => NoRemovals(stream) /\ checkpoint = checkpoint0

C2_Witness ==
    /\ pc = "Failed"
    /\ Len(stream) > 1
    /\ checkpoint0 \ seen # {}
    /\ checkpoint = checkpoint0

C4_TablesDeduplicated ==
    /\ \A s \in Range(SchemaNames) : \A n \in TableNameSet :
          Cardinality(DatasetUnits(stream, DatasetUrn(get_identifier(s, n)), "table")) <= 1
    /\ pc = "Done" =>
          /\ report.tables_scanned = DistinctTables(SchemaNames)
          /\ \A s \in Range(SchemaNames) : \A n \in TableNameSet :
                TableProcessed(s, n) =>
                   Cardinality(DatasetUnits(stream, DatasetUrn(get_identifier(s, n)), "table"))
                     = IF Raises("pk", get_identifier(s, n)) THEN 0 ELSE 1

C4_Witness ==
    /\ pc = "Done"
    /\ Len(tableNames["s1"]) >= 2
    /\ tableNames["s1"][1] = "t1" /\ tableNames["s1"][2] = "t1"
    /\ Cardinality(DatasetUnits(stream, "dataset:s1.t1", "table")) = 1
    /\ report.tables_scanned = 2

\* C5: within one run no dataset identifier is emitted as a dataset entity
\* more than once, tables and views together.
C5_UniqueDatasetEntities ==
    \A i, j \in DOMAIN stream :
        (i < j /\ stream[i].kind = "dataset" /\ stream[j].kind = "dataset")
            => stream[i].urn # stream[j].urn

\* C6: when processing of single tables or views is all that raises, the run
\* does not end in a fatal failure: the failure is caught and the walk goes on.
EntityCalls == {"columns", "pk", "fields", "decode"}
C6_EntityFailureIsolated ==
    (faults # {} /\ \A f \in faults : f[1] \in EntityCalls) => pc # "Failed"

C8_SchemaFailureIsolated ==
    (faults # {} /\ faults \subseteq {<<"tables", "s1">>, <<"views", "s1">>}) =>
        /\ pc # "Failed"
        /\ pc = "Done" => DatasetUnits(stream, "dataset:s2.t1", "table") # {}

\* C9: every container-membership record refers to a schema container emitted
\* earlier in the run, and every schema container to a database container
\* emitted earlier.
C9_CreationPrecedesReference ==
    \A i \in DOMAIN stream :
        /\ stream[i].kind = "container_membership" =>
              \E j \in 1..(i - 1) :
                 stream[j].kind = "schema_container" /\ stream[j].urn = stream[i].ref
        /\ stream[i].kind = "schema_container" =>
              \E j \in 1..(i - 1) :
                 stream[j].kind = "database_container" /\ stream[j].urn = stream[i].ref

\* C10: a table whose get_pk_constraint raises is still emitted, with
\* isPartOfKey false on all its fields.
C10_PkFailureNonFatal ==
    \A s \in Range(SchemaNames) : \A n \in TableNameSet :
        (pc = "Done" /\ TableProcessed(s, n) /\ Raises("pk", get_identifier(s, n))) =>
            \E i \in DatasetUnits(stream, DatasetUrn(get_identifier(s, n)), "table") :
                \A k \in DOMAIN stream[i].fields : ~stream[i].fields[k].isPartOfKey

\* C11: when the inspector calls made for a table or view raise
\* NotImplementedError (get_table_comment, get_pk_constraint,
\* get_foreign_keys, get_view_definition, get_columns), the entity is still
\* emitted and the walk goes on to the end.
C11_NotSupportedIsNoData ==
    (pc = "Done" /\ exc = "NotImplementedError") =>
        \A s \in Range(SchemaNames) :
            /\ \A n \in TableNameSet :
                  TableProcessed(s, n) =>
                     DatasetUnits(stream, DatasetUrn(get_identifier(s, n)), "table") # {}
            /\ \A n \in ViewNameSet :
                  ViewProcessed(s, n) =>
                     DatasetUnits(stream, DatasetUrn(get_identifier(s, n)), "view") # {}

\* the rows of the tables query that belong to one table key, in order
RowsOfKey(rows, key) ==
    LET Same(r) == _get_table_key(r) = key IN SelectSeq(rows, Same)

HiveTableUrn(key) == DatasetUrn(get_identifier(hive_schema_name(key[1]), key[2]))

\* the dataset identifiers a stream carries
DatasetUrns(str) == {str[i].urn : i \in {j \in DOMAIN str : str[j].kind = "dataset"}}

\* C12: the identifiers emitted and the fields of each emitted entity depend
\* on which table names and column rows introspection returns, not on their
\* order: the generic walk emits exactly the tables and views that were
\* listed, allowed and processed without error, and every table entity of
\* Presto on Hive carries the fields of all the rows of its key.
C12_OrderIndependent ==
    /\ (hcfg.source = "sqlalchemy" /\ pc = "Done") =>
          DatasetUrns(stream) =
             {DatasetUrn(get_identifier(s, n)) : <<s, n>> \in
                {x \in Range(SchemaNames) \X TableNameSet :
                    TableProcessed(x[1], x[2]) /\ ~Raises("pk", get_identifier(x[1], x[2]))}}
             \cup
             {DatasetUrn(get_identifier(s, n)) : <<s, n>> \in
                {x \in Range(SchemaNames) \X ViewNameSet :
                    ViewProcessed(x[1], x[2]) /\ ~Raises("columns", get_identifier(x[1], x[2]))}}
    /\ hcfg.source = "presto_on_hive" =>
          \A i \in DOMAIN stream :
             (stream[i].kind = "dataset" /\ stream[i].etype = "table") =>
                \E r \in Range(TablesQuery) :
                   /\ HiveTableUrn(_get_table_key(r)) = stream[i].urn
                   /\ Range(stream[i].fields) =
                        Range(hive_get_schema_fields(RowsOfKey(TablesQuery, _get_table_key(r))))

\* C13: when loop_tables of Presto on Hive runs once (for the one schema named
\* by metastore_db_name), every table key of the query that passes the
\* filters gets exactly one entity, and it carries a field for each row of
\* the key, whether or not the rows of the key are next to each other.
C13_KeyedGrouping ==
    (pc = "Done" /\ hcfg.source = "presto_on_hive" /\ IsMysql(hcfg.scheme)
        /\ hcfg.metastore_db_name # "") =>
        \A r \in Range(TablesQuery) :
            LET key == _get_table_key(r)
                at == DatasetUnits(stream, HiveTableUrn(key), "table")
            IN  (allowed(hcfg.database_deny, key[1])
                   /\ allowed(cfg.table_deny, get_identifier(hive_schema_name(key[1]), key[2]))) =>
                /\ Cardinality(at) = 1
                /\ \A i \in at : Len(stream[i].fields) = Len(RowsOfKey(TablesQuery, key))

\* how often a name was reported dropped
DroppedCount(name) ==
    Cardinality({i \in DOMAIN report.filtered : report.filtered[i] = name})

\* the work units the walk yielded about a schema: its container, and
\* whatever is about a table or view of it
UnitsOfSchema(str, s) ==
    {i \in DOMAIN str :
        /\ str[i].kind # "removal"
        /\ \/ str[i].urn = SchemaKey(get_db_name, s)
           \/ str[i].ref = SchemaKey(get_db_name, s)
           \/ \E n \in TableNameSet \cup ViewNameSet :
                 str[i].urn = DatasetUrn(get_identifier(s, n))}

\* C14: a schema that schema_pattern rejects has no container, no table and
\* no view in the stream and is reported dropped once; a schema that passes
\* has its container in the stream, with the database container as parent.
C14_SchemaFilter ==
    \A s \in Range(SchemaNames) :
        IF ~allowed(cfg.schema_deny, s)
        THEN /\ UnitsOfSchema(stream, s) = {}
             /\ DroppedCount(s \o ".*") <= 1
             /\ pc = "Done" => DroppedCount(s \o ".*") = 1
        ELSE /\ DroppedCount(s \o ".*") = 0
             /\ pc = "Done" =>
                   \E i \in DOMAIN stream :
                      /\ stream[i].kind = "schema_container"
                      /\ stream[i].urn = SchemaKey(get_db_name, s)
                      /\ stream[i].ref = DatabaseKey(get_db_name)

C14_Witness ==
    /\ pc = "Done"
    /\ cfg.schema_deny = {"s1"}
    /\ Len(tableNames["s1"]) > 0 /\ Len(viewNames["s1"]) > 0
    /\ DroppedCount("s1.*") = 1
    /\ UnitsOfSchema(stream, "s1") = {}
    /\ DatasetUnits(stream, "dataset:s2.t1", "table") # {}

\* the work units the walk yielded about a Hive database: its container and
\* whatever was put into it
UnitsOfHiveDb(str, d) ==
    {i \in DOMAIN str :
        /\ str[i].kind # "removal"
        /\ \/ str[i].urn = SchemaKey(get_db_name, d)
           \/ str[i].ref = SchemaKey(get_db_name, d)}

ContainerUnits(str, urn) ==
    {i \in DOMAIN str :
        str[i].kind \in {"database_container", "schema_container"} /\ str[i].urn = urn}

\* the names of the tables and views of the metastore
HiveNames ==
    {SortedTableRows[i].table_name : i \in DOMAIN SortedTableRows}
    \cup {HiveViews[i].table_name : i \in DOMAIN HiveViews}

\* something of this Hive database was reported dropped
HiveDbDropped(d) ==
    \E i \in DOMAIN report.filtered :
        report.filtered[i] \in {d, d \o ".*"}
           \cup {get_identifier(hive_schema_name(d), n) : n \in HiveNames}

\* C15: after the walk, the container of the crawled database is in the
\* stream exactly once; a Hive database that database_pattern rejects has no
\* container and no entity in the stream and is reported dropped, and one
\* that passes (and that the schemas query returns) has exactly one container.
C15_DatabaseFilter ==
    pc = "Done" =>
        /\ Cardinality(ContainerUnits(stream, DatabaseKey(get_db_name))) = 1
        /\ hcfg.source = "presto_on_hive" =>
              \A d \in HiveDbSet :
                 IF ~allowed(hcfg.database_deny, d)
                 THEN UnitsOfHiveDb(stream, d) = {} /\ HiveDbDropped(d)
                 ELSE d \in Range(SchemasQuery) =>
                         Cardinality(ContainerUnits(stream, SchemaKey(get_db_name, d))) = 1

\* the pattern of the entity's own level
EntityAllowed(etype, dataset_name) ==
    IF etype = "table" THEN allowed(cfg.table_deny, dataset_name)
    ELSE allowed(cfg.view_deny, dataset_name)

\* C16: a table or view is emitted only if its schema (for Presto on Hive:
\* its Hive database, under database_pattern) and its own name pass the
\* pattern of their level.
C16_FiltersCompose ==
    \A i \in DOMAIN stream :
        stream[i].kind = "dataset" =>
            /\ hcfg.source = "sqlalchemy" =>
                  \A s \in Range(SchemaNames) : \A n \in TableNameSet \cup ViewNameSet :
                     stream[i].urn = DatasetUrn(get_identifier(s, n)) =>
                        /\ allowed(cfg.schema_deny, s)
                        /\ EntityAllowed(stream[i].etype, get_identifier(s, n))
            /\ hcfg.source = "presto_on_hive" =>
                  \A d \in HiveDbSet : \A n \in HiveNames :
                     stream[i].urn = HiveTableUrn(<<d, n>>) =>
                        /\ allowed(hcfg.database_deny, d)
                        /\ EntityAllowed(stream[i].etype,
                                         get_identifier(hive_schema_name(d), n))

\* C17: allowed(name) is false whenever a deny rule matches the name, also
\* when an allow rule matches it too; with no deny rule matching it is true
\* for an empty allow list, and else true exactly when an allow rule matches.
C17_FilterPrecedence ==
    last_call.op = "allowed" =>
        LET denied == \E d \in last_call.pattern.deny : last_call.name \in d
            admitted == \E a \in last_call.pattern.allow : last_call.name \in a
        IN  /\ denied => last_call.result = FALSE
            /\ (~denied /\ last_call.pattern.allow = {}) => last_call.result = TRUE
            /\ (~denied /\ last_call.pattern.allow # {}) => last_call.result = admitted

C17_Witness ==
    /\ last_call.op = "allowed"
    /\ \E d \in last_call.pattern.deny : last_call.name \in d
    /\ \E a \in last_call.pattern.allow : last_call.name \in a
    /\ last_call.result = FALSE

\* how often a warning was reported under a key
WarningCount(key, reason) ==
    Cardinality({i \in DOMAIN report.warnings : report.warnings[i] = <<key, reason>>})

\* C18: for a column whose native type matches no rule of the mapping, the
\* field gets the null category; one warning per such column is reported
\* under the table's name unless the type is a known unknown type, for which
\* none is reported; the table's entity is emitted in both cases.
C18_TypeFallback ==
    \A s \in Range(SchemaNames) : \A n \in TableNameSet :
        LET dn == get_identifier(s, n)
            cols == ColumnsOf(dn)
            at == DatasetUnits(stream, DatasetUrn(dn), "table")
        IN  (pc = "Done" /\ TableProcessed(s, n)
               /\ ~Raises("columns", dn) /\ ~Raises("pk", dn)) =>
            /\ at # {}
            /\ \A k \in DOMAIN cols :
                  FirstMatch(FieldTypeMapping, cols[k].type) = 0 =>
                     /\ \A i \in at : stream[i].fields[k].type = "Null"
                     /\ WarningCount(dn, "unable to map type " \o cols[k].type) =
                          IF TypeClasses(cols[k].type) \cap KnownUnknownFieldTypes # {}
                          THEN 0
                          ELSE Cardinality({j \in DOMAIN cols : cols[j].type = cols[k].type})

C18_Witness ==
    /\ pc = "Done"
    /\ TableProcessed("s1", "t2")
    /\ \E i \in DatasetUnits(stream, "dataset:s1.t2", "table") :
          /\ stream[i].fields[2].type = "Null"
          /\ stream[i].fields[4].type = "Null"
    /\ WarningCount("s1.t2", "unable to map type GEOMETRY") = 2
    /\ WarningCount("s1.t2", "unable to map type INTERVAL") = 0

\* C19: the category get_column_type returns is that of the earliest rule
\* of the mapping that matches the native type, and a rule registered at
\* runtime for the very type of the column decides the category of that type.
C19_FirstRuleWins ==
    last_call.op = "get_column_type" =>
        LET m == last_call.mapping
            hits == {i \in DOMAIN m : m[i][1] \in TypeClasses(last_call.column_type)}
        IN  /\ hits # {} =>
                  \E i \in hits : /\ \A j \in hits : i <= j
                                   /\ last_call.result.type = m[i][2]
            /\ \A i \in DOMAIN m :
                  (i > Len(FieldTypeMapping) /\ m[i][1] = last_call.column_type) =>
                     last_call.result.type = m[i][2]

\* C20: register_custom_type leaves the tables the module defines as they
\* are, and get_column_type (which any source of the process calls) maps
\* every type as those tables do.
C20_RegistryIsolation ==
    /\ _field_type_mapping = FieldTypeMapping
    /\ _known_unknown_field_types = KnownUnknownFieldTypes
    /\ last_call.op = "get_column_type" =>
          last_call.result =
             MapType(FieldTypeMapping, KnownUnknownFieldTypes, last_call.column_type)

\* C21: in every emitted table entity a field is marked as part of the key
\* exactly when its column name is in the primary-key column list of the
\* table (no field is when the list is empty), and no field of a view entity
\* is marked.
C21_KeyColumns ==
    \A s \in Range(SchemaNames) :
        /\ \A n \in TableNameSet :
              LET dn == get_identifier(s, n) IN
              \A i \in DatasetUnits(stream, DatasetUrn(dn), "table") :
                 \A k \in DOMAIN stream[i].fields :
                    stream[i].fields[k].isPartOfKey
                       <=> (stream[i].fields[k].path \in PrimaryKeyOf(dn))
        /\ \A n \in ViewNameSet :
              \A i \in DatasetUnits(stream, DatasetUrn(get_identifier(s, n)), "view") :
                 \A k \in DOMAIN stream[i].fields : ~stream[i].fields[k].isPartOfKey

C21_Witness ==
    /\ \E i \in DatasetUnits(stream, "dataset:s1.t1", "table") :
          /\ Len(stream[i].fields) = 2
          /\ stream[i].fields[1].isPartOfKey
          /\ ~stream[i].fields[2].isPartOfKey
    /\ \E i \in DatasetUnits(stream, "dataset:s1.t2", "table") :
          /\ stream[i].fields # <<>>
          /\ \A k \in DOMAIN stream[i].fields : ~stream[i].fields[k].isPartOfKey
    /\ \E i \in DatasetUnits(stream, "dataset:s2.v1", "view") :
          stream[i].fields # <<>>

\* C22: the fields of an emitted dataset entity have pairwise distinct paths,
\* whatever the list of column descriptors the inspector returned.
C22_FieldPathsUnique ==
    \A i \in DOMAIN stream :
        stream[i].kind = "dataset" =>
            \A k, l \in DOMAIN stream[i].fields :
                k # l => stream[i].fields[k].path # stream[i].fields[l].path

\* the view-properties work units of a dataset
ViewPropertiesUnits(str, urn) ==
    {i \in DOMAIN str : str[i].kind = "view_properties" /\ str[i].urn = urn}

\* C23: every emitted view entity is not materialized and carries as its
\* definition the text get_view_definition returned for the view, unchanged;
\* the empty text when it returned None or raised NotImplementedError.
C23_ViewDefinition ==
    \A s \in Range(SchemaNames) : \A n \in ViewNameSet :
        LET dn == get_identifier(s, n)
            returned == ViewDefinitionOf(dn)
            expected == IF Raises("viewdef", dn) \/ returned.class = "None"
                        THEN "" ELSE returned.text
        IN  /\ \A i \in DatasetUnits(stream, DatasetUrn(dn), "view") :
                  /\ stream[i].text = expected
                  /\ ViewPropertiesUnits(stream, DatasetUrn(dn)) # {}
            /\ \A i \in ViewPropertiesUnits(stream, DatasetUrn(dn)) :
                  /\ stream[i].text = expected
                  /\ stream[i].materialized = FALSE

C23_Witness ==
    /\ Raises("viewdef", "s1.v1") /\ exc = "NotImplementedError"
    /\ \E i \in ViewPropertiesUnits(stream, "dataset:s1.v1") :
          stream[i].text = "" /\ ~stream[i].materialized
    /\ \E i \in ViewPropertiesUnits(stream, "dataset:s1.v2") : stream[i].text = ""
    /\ \E i \in ViewPropertiesUnits(stream, "dataset:s2.v1") :
          stream[i].text = "SELECT * FROM foo" /\ ~stream[i].materialized

\* the candidate list loop_profiler_requests worked with for a schema: it
\* asked for one, and the dialect gave one
CandidatesGiven(s) ==
    s \in Range(candidate_queries) /\ hcfg.candidates.supported

\* the test the profiling loop applies to a table
ProfilingAdmits(s, dn) ==
    /\ allowed(cfg.table_deny, dn)
    /\ allowed(cfg.profile_deny, dn)
    /\ (~CandidatesGiven(s) \/ dn \in hcfg.candidates.names)

\* C24: a table gets a profile request only if table_pattern and
\* profile_pattern allow its name and the candidate list is None or contains
\* it; after the walk a table that this test excludes is reported as dropped
\* (once each time it is listed) if report_dropped_profiles is set, and not
\* at all if it is not.
C24_ProfilingEligibility ==
    \A s \in Range(SchemaNames) : \A n \in Range(tableNames[s]) :
        LET dn == get_identifier(s, n) IN
        /\ dn \in Range(profile_requests) => ProfilingAdmits(s, dn)
        /\ (pc = "Done" /\ cfg.profiling /\ allowed(cfg.schema_deny, s)
              /\ ~ProfilingAdmits(s, dn)) =>
              DroppedCount("profile of " \o dn) =
                 IF cfg.report_dropped_profiles
                 THEN Cardinality({i \in DOMAIN tableNames[s] : tableNames[s][i] = n})
                 ELSE 0

C24_Witness ==
    /\ pc = "Done"
    /\ cfg.report_dropped_profiles
    /\ cfg.table_deny = {"s1.t2"} /\ cfg.profile_deny = {"s1.td"}
    /\ CandidatesGiven("s1")
    /\ "s1.t1" \in Range(profile_requests)
    /\ "s1.t2" \notin Range(profile_requests)
    /\ "s1.td" \notin Range(profile_requests)
    /\ DroppedCount("profile of s1.t2") = 1
    /\ DroppedCount("profile of s1.td") = 1

\* the profile work units of a dataset
ProfileUnits(str, urn) ==
    {i \in DOMAIN str : str[i].kind = "profile" /\ str[i].urn = urn}

\* C25: a table for which get_columns returned no column during the walk of
\* this run gets no profile request and no profile, whatever the eligibility
\* test says.
C25_MissingColumnsNotProfiled ==
    \A s \in Range(SchemaNames) : \A n \in Range(tableNames[s]) :
        LET dn == get_identifier(s, n) IN
        (TableProcessed(s, n) /\ ~Raises("columns", dn) /\ ColumnsOf(dn) = <<>>) =>
            /\ dn \notin Range(profile_requests)
            /\ ProfileUnits(stream, DatasetUrn(dn)) = {}

C25_Witness ==
    /\ pc = "Done"
    /\ TableProcessed("s1", "t0")
    /\ ProfilingAdmits("s1", "s1.t0")
    /\ WarningCount(MISSING_COLUMN_INFO, "s1.t0") = 1
    /\ DatasetUnits(stream, "dataset:s1.t0", "table") # {}
    /\ "s1.t0" \notin Range(profile_requests)
    /\ "s1.t1" \in Range(profile_requests)
    /\ ProfileUnits(stream, "dataset:s1.t1") # {}

\* some warning of the report is about the dataset: one filed under its
\* name, or the missing-column-information warning naming it
WarnedAbout(dn) ==
    \E i \in DOMAIN report.warnings :
        report.warnings[i][1] = dn \/ report.warnings[i] = <<MISSING_COLUMN_INFO, dn>>

\* C26: when get_columns returns no column for a table or a view, a warning
\* is recorded and the entity is still emitted, with an empty field list.
C26_MissingColumnsWarned ==
    pc = "Done" =>
        \A s \in Range(SchemaNames) :
            /\ \A n \in Range(tableNames[s]) :
                  LET dn == get_identifier(s, n) IN
                  (TableProcessed(s, n) /\ ~Raises("columns", dn)
                     /\ ColumnsOf(dn) = <<>>) =>
                     /\ WarnedAbout(dn)
                     /\ \E i \in DatasetUnits(stream, DatasetUrn(dn), "table") :
                           stream[i].fields = <<>>
            /\ \A n \in Range(viewNames[s]) :
                  LET dn == get_identifier(s, n) IN
                  (ViewProcessed(s, n) /\ ~Raises("columns", dn)
                     /\ ColumnsOf(dn) = <<>>) =>
                     /\ WarnedAbout(dn)
                     /\ \E i \in DatasetUnits(stream, DatasetUrn(dn), "view") :
                           stream[i].fields = <<>>

\* at least one of the three profiling thresholds is configured
ThresholdSet ==
    \/ cfg.profile_if_updated_since_days # "None"
    \/ cfg.profile_table_size_limit # "None"
    \/ cfg.profile_table_row_limit # "None"

\* get_columns returned no column for the table when loop_tables processed it
FlaggedMissingColumns(s, n) ==
    /\ TableProcessed(s, n)
    /\ ~Raises("columns", get_identifier(s, n))
    /\ ColumnsOf(get_identifier(s, n)) = <<>>

\* C27: with a threshold configured and a dialect whose
\* generate_profile_candidates raises NotImplementedError, the run does not
\* fail and the patterns alone decide which tables get a profile request
\* (tables flagged with missing column information aside).
C27_CandidatesDegrade ==
    (ThresholdSet /\ ~hcfg.candidates.supported) =>
        /\ pc # "Failed"
        /\ pc = "Done" =>
              \A s \in Range(SchemaNames) : \A n \in Range(tableNames[s]) :
                  LET dn == get_identifier(s, n) IN
                  (cfg.profiling /\ allowed(cfg.schema_deny, s)) =>
                     (dn \in Range(profile_requests)
                        <=> /\ allowed(cfg.table_deny, dn)
                            /\ allowed(cfg.profile_deny, dn)
                            /\ ~FlaggedMissingColumns(s, n))

C27_Witness ==
    /\ pc = "Done"
    /\ cfg.profile_if_updated_since_days # "None"
    /\ ~hcfg.candidates.supported
    /\ candidate_queries = <<"s1", "s2">>
    /\ cfg.profile_deny = {}
    /\ "s1.t1" \in Range(profile_requests)
    /\ "s1.td" \in Range(profile_requests)

\* C28: generate_profile_candidates is called for a schema only if one of the
\* thresholds is configured, and once the walk is over it has been called
\* for every profiled schema if one is.
C28_CandidatesQueriedIffThreshold ==
    \A s \in Range(SchemaNames) :
        /\ s \in Range(candidate_queries) => ThresholdSet
        /\ (pc = "Done" /\ cfg.profiling /\ allowed(cfg.schema_deny, s)
              /\ ThresholdSet) => s \in Range(candidate_queries)

\* C29: once the walk of the database is over, whether it completed or
\* failed, no connection the source opened is still open: neither the one of
\* get_inspectors nor the one of the SQLAlchemyClient.
C29_ScopedConnection ==
    pc \in {"Walked", "Done", "Failed"} =>
        /\ ~conn
        /\ _alchemy_client.connection # "open"

RecordsOf(str, urn) ==
    {i \in DOMAIN str : str[i].urn = urn /\ str[i].kind \notin {"removal", "profile"}}

\* the table or view was handed to _process_table / _process_view and the
\* loop reported its failure
Skipped(dn) == <<dn, "Ingestion error">> \in Range(report.warnings)

\* C31: a table or view whose processing failed and was reported by its loop
\* has no lineage, container-membership, snapshot, subtype or view-properties
\* record in the stream, and its identifier is not in the seen-set.
C31_AllOrNothing ==
    \A s \in Range(SchemaNames) : \A n \in TableNameSet \cup ViewNameSet :
        LET dn == get_identifier(s, n) IN
        Skipped(dn) =>
            /\ RecordsOf(stream, DatasetUrn(dn)) = {}
            /\ DatasetUrn(dn) \notin seen

\* the identifier is that of a table or view the catalog lists and the
\* filters of its schema and of its own level admit
InCatalogAndAllowed(urn) ==
    \E s \in Range(SchemaNames) :
        /\ allowed(cfg.schema_deny, s)
        /\ \/ \E n \in Range(tableNames[s]) :
                 /\ urn = DatasetUrn(get_identifier(s, n))
                 /\ cfg.include_tables
                 /\ allowed(cfg.table_deny, get_identifier(s, n))
           \/ \E n \in Range(viewNames[s]) :
                 /\ urn = DatasetUrn(get_identifier(s, n))
                 /\ cfg.include_views
                 /\ allowed(cfg.view_deny, get_identifier(s, n))

\* C32: in a run that ends without a fatal failure, no removal signal is
\* emitted for the identifier of a table or view that is still listed by the
\* catalog and still passes the filters, also when the table or view was
\* skipped because a call made for it, or the listing of its schema, raised.
C32_RemovalsReflectDisappearance ==
    pc = "Done" =>
        \A i \in DOMAIN stream :
            stream[i].kind = "removal" => ~InCatalogAndAllowed(stream[i].urn)

\* the identifiers of the tables the catalog may list
TableIds == {get_identifier(s, n) : s \in Range(SchemaNames), n \in TableNameSet}

ViewIds == {get_identifier(s, n) : s \in Range(SchemaNames), n \in ViewNameSet}

\* how often the table was emitted as an entity, reported dropped, and
\* reported by loop_tables as an ingestion error
EmittedCount(dn) == Cardinality(DatasetUnits(stream, DatasetUrn(dn), "table"))
IngestionErrorCount(dn) == WarningCount(dn, "Ingestion error")
OutcomeCount(dn) == EmittedCount(dn) + DroppedCount(dn) + IngestionErrorCount(dn)

\* the names the schema, table and view patterns reject
RejectedNames ==
    {s \in Range(SchemaNames) : ~allowed(cfg.schema_deny, s)}
    \cup {dn \in TableIds : ~allowed(cfg.table_deny, dn)}
    \cup {dn \in ViewIds : ~allowed(cfg.view_deny, dn)}

\* C33: throughout the generic walk tables_scanned is the number of table
\* entities emitted plus the number of tables reported dropped plus the
\* number reported as an ingestion error, and no table has more than one of
\* these outcomes; at the end of the run tables_scanned is the number of
\* distinct identifiers the walked schemas list and each of them has exactly
\* one outcome. A name that a pattern rejects is never among the failures nor
\* the key of a warning, and a rejected table is among the dropped names.
C33_ReportAccounting ==
    /\ report.tables_scanned =
          Cardinality({i \in DOMAIN stream :
                          stream[i].kind = "dataset" /\ stream[i].etype = "table"})
          + Cardinality({i \in DOMAIN report.filtered : report.filtered[i] \in TableIds})
          + Cardinality({i \in DOMAIN report.warnings :
                          /\ report.warnings[i][2] = "Ingestion error"
                          /\ report.warnings[i][1] \in TableIds})
    /\ \A dn \in TableIds : OutcomeCount(dn) <= 1
    /\ pc = "Done" =>
          /\ report.tables_scanned = DistinctTables(SchemaNames)
          /\ \A s \in Range(SchemaNames) : \A n \in Range(tableNames[s]) :
                TablesWalked(s) =>
                   /\ OutcomeCount(get_identifier(s, n)) = 1
                   /\ ~allowed(cfg.table_deny, get_identifier(s, n)) =>
                         DroppedCount(get_identifier(s, n)) = 1
    /\ \A name \in RejectedNames :
          /\ \A f \in report.failures : f[1] \notin {name, name \o ".*"}
          /\ \A i \in DOMAIN report.warnings : report.warnings[i][1] # name

C33_Witness ==
    /\ pc = "Done"
    /\ tableNames["s1"] = <<"t1", "t2">>
    /\ Raises("pk", "s1.t1")
    /\ report.tables_scanned = 3
    /\ IngestionErrorCount("s1.t1") = 1 /\ EmittedCount("s1.t1") = 0
    /\ DroppedCount("s1.t2") = 1 /\ EmittedCount("s1.t2") = 0
    /\ EmittedCount("s2.t1") = 1

\* the kinds of record the walk of the schemas yields
WalkKinds ==
    {"database_container", "schema_container", "container_membership",
     "dataset", "subtypes", "view_properties", "lineage"}

\* C34: every profile record comes after every container, table and view
\* record of the database; profile records are emitted (and the profiler is
\* running) only when get_allowed_schemas has no schema left to yield; with
\* profiling disabled no profile request is built, no table is counted as
\* profiled and no profile record is emitted.
C34_ProfilingFollowsWalk ==
    /\ \A i, j \in DOMAIN stream :
          (stream[i].kind = "profile" /\ stream[j].kind \in WalkKinds) => j < i
    /\ (pc = "Profiler" \/ \E i \in DOMAIN stream : stream[i].kind = "profile") =>
          /\ schemaQ = <<>>
          /\ pc \in {"Profiler", "Walked", "Done"}
    /\ ~cfg.profiling =>
          /\ profile_requests = <<>>
          /\ candidate_queries = <<>>
          /\ report.entities_profiled = 0
          /\ \A i \in DOMAIN stream : stream[i].kind # "profile"

C34_Witness ==
    /\ pc = "Done"
    /\ cfg.profiling
    /\ ProfileUnits(stream, "dataset:s1.t1") # {}
    /\ \E i \in ProfileUnits(stream, "dataset:s1.t1") :
          \E j \in DatasetUnits(stream, "dataset:s2.t1", "table") : j < i
    /\ ContainerUnits(stream, SchemaKey(get_db_name, "s2")) # {}

\* C35: every profile request names a table whose dataset entity is in the
\* stream, none names a table that loop_tables reported as an ingestion
\* error, and with include_tables off there is no request at all.
C35_OnlyDiscoveredProfiled ==
    /\ \A k \in DOMAIN profile_requests :
          /\ DatasetUnits(stream, DatasetUrn(profile_requests[k]), "table") # {}
          /\ ~Skipped(profile_requests[k])
    /\ ~cfg.include_tables => profile_requests = <<>>

\* the schema has been through loop_profiler_requests
RequestsBuilt(s) ==
    /\ cfg.profiling
    /\ allowed(cfg.schema_deny, s)
    /\ pc \in {"Profiler", "Walked", "Done"}

\* C36: no two profile requests name the same dataset, also when
\* get_table_names returns a name several times; entities_profiled is the
\* number of requests produced; no request names a table that is ineligible
\* or flagged with missing column information, and once the requests of a
\* schema are built every other table it lists has exactly one.
C36_RequestsDeduplicated ==
    /\ report.entities_profiled = Len(profile_requests)
    /\ \A i, j \in DOMAIN profile_requests :
          i # j => profile_requests[i] # profile_requests[j]
    /\ \A s \in Range(SchemaNames) : \A n \in Range(tableNames[s]) :
          LET dn == get_identifier(s, n)
              requested == {k \in DOMAIN profile_requests : profile_requests[k] = dn}
          IN  IF ProfilingAdmits(s, dn) /\ ~FlaggedMissingColumns(s, n)
              THEN RequestsBuilt(s) => Cardinality(requested) = 1
              ELSE requested = {}

C36_Witness ==
    /\ pc = "Done"
    /\ cfg.profiling
    /\ tableNames["s1"] = <<"t1", "t1">>
    /\ profile_requests = <<"s1.t1", "s2.t1">>
    /\ report.entities_profiled = 2

\* the dataset entities of the identifier, table or view
SnapshotUnits(str, urn) ==
    {i \in DOMAIN str : str[i].kind = "dataset" /\ str[i].urn = urn}

\* the faults, other than those of get_table_comment, that hit one of the names
FaultsBesidesComment(names) ==
    {f \in faults : f[2] \in names /\ f[1] \notin {"comment", "comment_quoted"}}

\* C37: when get_table_comment raises a ProgrammingError for a table or
\* view, the run never fails; if the call with the quoted schema name
\* succeeds, the entity carries the comment that call returned and, when no
\* other call raises for it, is emitted once and is not reported as an
\* ingestion error; if that call raises too, the entity is reported as an
\* ingestion error and not emitted, and the tables of the next schema, when
\* no call raises for them, are emitted all the same.
C37_CommentRetry ==
    \A s \in Range(SchemaNames) : \A n \in TableNameSet \cup ViewNameSet :
        LET dn == get_identifier(s, n)
            processed == TableProcessed(s, n) \/ ViewProcessed(s, n)
        IN  (exc = "ProgrammingError" /\ Raises("comment", dn)) =>
               /\ pc # "Failed"
               /\ IF Raises("comment_quoted", dn)
                  THEN /\ SnapshotUnits(stream, DatasetUrn(dn)) = {}
                       /\ (pc = "Done" /\ processed) =>
                             /\ IngestionErrorCount(dn) = 1
                             /\ (cfg.include_tables
                                   /\ FaultsBesidesComment({"s2", "s2.t1"}) = {})
                                   => EmittedCount("s2.t1") = 1
                  ELSE /\ \A i \in SnapshotUnits(stream, DatasetUrn(dn)) :
                             stream[i].description = TableComment(Quote(s), n)
                       /\ FaultsBesidesComment({dn}) = {} =>
                             /\ ~Skipped(dn)
                             /\ (pc = "Done" /\ processed) =>
                                   Cardinality(SnapshotUnits(stream, DatasetUrn(dn))) = 1

C37_Witness ==
    /\ pc = "Done"
    /\ exc = "ProgrammingError"
    /\ faults = {<<"comment", "s1.t1">>}
    /\ \E i \in DatasetUnits(stream, "dataset:s1.t1", "table") :
          stream[i].description = "comment of \"s1\".t1"
    /\ \E i \in DatasetUnits(stream, "dataset:s1.t2", "table") :
          stream[i].description = "comment of s1.t2"

\* the foreign-key extraction of the table meets a KeyError: a record lacks
\* a key, or get_foreign_keys itself raises one
ForeignKeyError(dn) ==
    \/ \E k \in DOMAIN ForeignKeysOf(dn) :
          ~(ForeignKeyKeys \subseteq DOMAIN ForeignKeysOf(dn)[k])
    \/ Raises("fks", dn) /\ exc = "KeyError"

\* C38: a table entity whose foreign-key extraction met a KeyError carries an
\* empty foreign-key list, and the table is emitted and not reported as an
\* ingestion error when nothing else raises for it; any other table entity
\* carries one constraint per record of get_foreign_keys, in order, under the
\* record's name, and a record without referred_schema refers to the dataset
\* of that name in the table's own schema.
C38_ForeignKeysNonFatal ==
    \A s \in Range(SchemaNames) : \A n \in TableNameSet :
        LET dn == get_identifier(s, n)
            recs == ForeignKeysOf(dn)
        IN  /\ \A i \in DatasetUnits(stream, DatasetUrn(dn), "table") :
                  IF ForeignKeyError(dn)
                  THEN stream[i].foreignKeys = << >>
                  ELSE /\ Len(stream[i].foreignKeys) = Len(recs)
                       /\ \A k \in DOMAIN recs :
                             /\ stream[i].foreignKeys[k].name = recs[k].name
                             /\ stream[i].foreignKeys[k].foreignDataset =
                                   "dataset:"
                                   \o (IF recs[k].referred_schema = "" THEN s
                                       ELSE recs[k].referred_schema)
                                   \o "." \o recs[k].referred_table
            /\ (pc = "Done" /\ TableProcessed(s, n) /\ ForeignKeyError(dn)
                  /\ faults \subseteq {<<"fks", dn>>}) =>
                  /\ EmittedCount(dn) = 1
                  /\ ~Skipped(dn)

C38_Witness ==
    /\ pc = "Done"
    /\ faults = {}
    /\ \E i \in DatasetUnits(stream, "dataset:s1.t2", "table") :
          stream[i].foreignKeys = << >>
    /\ \E i \in DatasetUnits(stream, "dataset:s1.t1", "table") :
          /\ Len(stream[i].foreignKeys) = 2
          /\ stream[i].foreignKeys[1].foreignDataset = "dataset:s2.t1"
          /\ stream[i].foreignKeys[2].foreignDataset = "dataset:s1.t2"

\* the platforms of the testers that accept the uri, by position in the table
AcceptingEntries(x) ==
    {i \in DOMAIN PLATFORM_TO_SQLALCHEMY_URI_TESTER_MAP :
        Accepts(PLATFORM_TO_SQLALCHEMY_URI_TESTER_MAP[i], x)}

\* C39: get_platform_from_sqlalchemy_uri returns the platform of the first
\* entry of the table whose tester accepts the uri, and "external" when none
\* does; a uri that starts with postgresql gives redshift when it contains
\* redshift.amazonaws and postgres when it does not.
C39_PlatformFirstMatch ==
    last_call.op = "get_platform_from_sqlalchemy_uri" =>
        LET x == last_call.uri
            hits == AcceptingEntries(x)
        IN  /\ IF hits = {} THEN last_call.result = "external"
               ELSE \E i \in hits :
                       /\ \A j \in hits : i <= j
                       /\ last_call.result =
                             PLATFORM_TO_SQLALCHEMY_URI_TESTER_MAP[i].platform
            /\ StartsWith(x, "postgresql") =>
                  last_call.result =
                     IF Find(x, "redshift.amazonaws") >= 0 THEN "redshift"
                     ELSE "postgres"
            /\ (StartsWith(x, "sqlite") \/ StartsWith(x, "db2") \/ StartsWith(x, "postgres:")
                  \/ StartsWith(x, "postgre:") \/ StartsWith(x, "postgre+"))
                  => last_call.result = "external"

C39_Witness ==
    /\ last_call.op = "get_platform_from_sqlalchemy_uri"
    /\ last_call.uri = "postgresql://cluster.redshift.amazonaws.com:5439/db"
    /\ Cardinality(AcceptingEntries(last_call.uri)) = 2
    /\ last_call.result = "redshift"

====
